---- MODULE Spec2Model ----
(***************************************************************************)
(* A model of the tracing-etw layer: the per-span field table              *)
(* (values.rs, layer.rs), the activity-id derivation (layer.rs,            *)
(* native/*.rs), the layer builder with its validation and target filter   *)
(* (layer.rs), the span / event handlers of EtwLayer, and the native and   *)
(* Common Schema encoders with their thread-local builder.                 *)
(***************************************************************************)
EXTENDS Integers, Sequences, FiniteSets, TLC

VARIABLES
    \* ---- field table under test (SpecTable) ----
    declared,      \* metadata.fields(): the declared field names, in order
    fields,        \* Box<[FieldValueIndex]> of the span
    assigned,      \* reference map name -> last value given to update_value
    lastUpdate,    \* the name given to the last update_value call, or NoUpdate
    tpc,           \* "new" before on_new_span allocated the table, "live" after
    \* ---- activity-id derivation under test (SpecIds) ----
    self_id,       \* the span id given to the derivation (id / current_span)
    parent_id,     \* the parent span id given to the derivation
    derived,       \* the last derivation: [site, activity_id, related_activity_id]
    earlier,       \* the derivation made before it
    \* ---- providers built by the layer builder (SpecBuild) ----
    built,         \* one entry per build_layer call: [provider_name, default_keyword, handle]
    native_registrations,  \* provider name -> number of native registrations made
    lastBuild,     \* the last build / build_with_target call: its builder and outcome
    \* ---- the layer at run time (Spec) ----
    backend,       \* the native module compiled in: "etw", "user_events" or "noop"
    seed,          \* *GLOBAL_ACTIVITY_SEED
    session,       \* what the OS controller has enabled: [level, any]
    changes,       \* how many times the controller changed it
    eventSets,     \* user_events: the (level, keyword) event sets registered
    interest,      \* callsite -> the Interest callsite_enabled answered, or "unset"
    reg,           \* the span registry: id -> [cs, parent, enabled] or NoSpan
    ext,           \* span extensions: id -> EtwLayerData or NoData
    recorded,      \* reference map: id -> field name -> last value recorded
    stack,         \* the spans the thread is inside, innermost last
    events,        \* the events handed to the native write call, in order
    clock,         \* SystemTime::now() of the next handler
    \* ---- the enabled check of the kernel tracepoint provider (SpecEnabled) ----
    checked,       \* the last enabled(level, keyword) call: [level, keyword, result]
    \* ---- one thread's encoder calls (SpecEncode) ----
    mode,          \* the provider type of the layer: "native" or "common_schema"
    slots,         \* the (field, value) slots of the span and event being encoded
    eb,            \* EBW, the thread-local EventBuilder: [name, opcode, tag, fields]
    wire,          \* what the last encoder call handed to eb.write, or NoWrite
    panicked,      \* whether the last encoder call unwound with a panic
    unwound,       \* whether an earlier encoder call of the thread unwound
    encoded,       \* the arguments of the last encoder call, or NoCall
    \* ---- the layers of one subscriber and their target filters (SpecTargets) ----
    subscriber,    \* the layers added to the registry, in order
    dispatched,    \* the last event dispatched: [cs, target, emitted]
    \* ---- one span entered and exited by two threads (SpecEnter) ----
    entries,       \* thread -> the timestamps of its on_enter calls not yet exited
    handler,       \* thread -> the handler that took its timestamp: [fn, timestamp]
    start_time,    \* EtwLayerData.start_time of the span
    stopped,       \* the last span_stop call: [start_time, stop, entered], or NoStop
    \* ---- the callsite metadata table (SpecMetadata) ----
    section,       \* the pointers the linker put between _start__etw_kw and _stop__etw_kw
    table,         \* EVENT_METADATA: NoTable until forced, then the outcome of the closure
    \* ---- Activities::generate under test (SpecActivities) ----
    activities,    \* the Activities generated for (self_id, parent_id), or NoActivities
    \* ---- a 128-bit value given to add_field_value (SpecWide) ----
    wide_value,    \* the value: [t, lo, hi], its two 64-bit halves as little-endian bytes
    wide_field,    \* the builder call add_field_value made for it, or NoField
    \* ---- the span handlers called in any registry state (SpecHandlers) ----
    handled        \* the last handler call: [fn, id, found, had_data], or NoHandled

tableVars == <<declared, fields, assigned, lastUpdate, tpc>>
idVars == <<self_id, parent_id, derived, earlier>>

buildVars == <<built, native_registrations, lastBuild>>
layerVars == <<session, changes, eventSets, interest, reg, ext, recorded, stack, events, clock>>

encVars == <<mode, slots, eb, wire, panicked, unwound, encoded>>
targetVars == <<subscriber, dispatched>>
enterVars == <<entries, handler, start_time, stopped>>
metaVars == <<section, table>>
wideVars == <<wide_value, wide_field>>
extraVars == <<enterVars, metaVars, activities, wideVars, handled>>
auxVars == <<checked, encVars, targetVars, extraVars>>

vars == <<tableVars, idVars, buildVars, backend, seed, layerVars, auxVars>>

-----------------------------------------------------------------------------
(* Bounds of the model *)

\* the largest number of fields a modelled span declares
MaxFields == 3

\* the number of layers the builder builds
MaxLayers == 3

\* the number of times the controller changes what is enabled
MaxChanges == 1

\* the number of timestamps the handlers take (on_enter, on_exit, on_event)
MaxClock == 3

-----------------------------------------------------------------------------
(* Value model: values.rs ValueTypes *)

\* ValueTypes::None, the Default of the enum
NoneValue == [t |-> "None", v |-> ""]

\* the values the front-end records in the model (main.rs: 12345, "9876f64", 4.5)
RecordValues ==
    { [t |-> "v_u64", v |-> "12345"],
      [t |-> "v_str", v |-> "9876f64"],
      [t |-> "v_f64", v |-> "4.5"] }

-----------------------------------------------------------------------------
(* Field names and their order: &'static str compared by Ord (bytewise)    *)

\* every field name of the model, listed in the lexicographic order of str::cmp
FieldNames == <<"field1", "field2", "field3", "invalid", "key">>

NameSet == { FieldNames[i] : i \in 1..Len(FieldNames) }

Rank(name) == CHOOSE i \in 1..Len(FieldNames) : FieldNames[i] = name

\* Ord::cmp on two field names
CmpName(a, b) ==
    IF Rank(a) < Rank(b) THEN "Less"
    ELSE IF Rank(a) > Rank(b) THEN "Greater"
    ELSE "Equal"

Front(s) == SubSeq(s, 1, Len(s) - 1)
Last(s) == s[Len(s)]

\* the sequences of distinct names of length 0..n
DistinctNameSeqs(n) ==
    UNION { { s \in [1..k -> NameSet] : \A i, j \in 1..k : i # j => s[i] # s[j] }
            : k \in 0..n }

-----------------------------------------------------------------------------
(* on_new_span: allocation of the field table, layer.rs 509-534            *)

\* the length of the `indexes` array of on_new_span
IndexesLen == 32

\* v after the first loop: field = name, value = None, sort_index = i
InitialSlots(names) ==
    [i \in 1..Len(names) |->
        [field |-> names[i], value |-> NoneValue, sort_index |-> i - 1]]

\* the key closure of sort_by_key: v[v[*idx].sort_index].field
SortKey(v, idx) == v[v[idx + 1].sort_index + 1].field

RECURSIVE InsertByKey(_, _, _)
\* one step of the stable sort: idx goes after every element whose key is <= its key
InsertByKey(v, sorted, idx) ==
    IF sorted = <<>> THEN <<idx>>
    ELSE IF CmpName(SortKey(v, Last(sorted)), SortKey(v, idx)) # "Greater"
         THEN Append(sorted, idx)
         ELSE Append(InsertByKey(v, Front(sorted), idx), Last(sorted))

RECURSIVE SortByKey(_, _)
\* indexes[0..n].sort_by_key(..): a stable sort of the slot indices by field name
SortByKey(v, idxs) ==
    IF idxs = <<>> THEN <<>>
    ELSE InsertByKey(v, SortByKey(v, Front(idxs)), Last(idxs))

\* the mutant of SortedIndexes: the indices are left in declaration order
SortedIndexesUnsorted(v) == [i \in 1..Len(v) |-> i - 1]

\* indexes[0..n] after the sort
SortedIndexes(v) == SortByKey(v, [i \in 1..Len(v) |-> i - 1])

\* the table on_new_span builds for the declared names (before the initial values)
NewFields(names) ==
    LET v == InitialSlots(names)
        indexes == SortedIndexes(v)
    IN [i \in 1..Len(v) |-> [v[i] EXCEPT !.sort_index = indexes[i]]]

-----------------------------------------------------------------------------
(* update_value: values.rs 95-106                                          *)

\* the key closure of binary_search_by_key: self.fields[idx.sort_index].field
SearchKey(f, pos) == f[f[pos + 1].sort_index + 1].field

RECURSIVE BinarySearchFrom(_, _, _, _)
\* slice::binary_search_by: halve [base, base+size) until one candidate is left
BinarySearchFrom(f, name, base, size) ==
    IF size > 1
    THEN LET half == size \div 2
             mid == base + half
         IN BinarySearchFrom(f, name,
                IF CmpName(SearchKey(f, mid), name) = "Greater" THEN base ELSE mid,
                size - half)
    ELSE LET cmp == CmpName(SearchKey(f, base), name)
         IN IF cmp = "Equal" THEN [ok |-> TRUE, idx |-> base]
            ELSE [ok |-> FALSE, idx |-> base + (IF cmp = "Less" THEN 1 ELSE 0)]

\* the mutant of BinarySearch: a miss is reported as a hit at the insertion point
BinarySearchHitOnMiss(f, name) ==
    IF Len(f) = 0 THEN [ok |-> FALSE, idx |-> 0]
    ELSE LET r == BinarySearchFrom(f, name, 0, Len(f))
         IN [ok |-> TRUE, idx |-> IF r.idx < Len(f) THEN r.idx ELSE Len(f) - 1]

\* self.fields.binary_search_by_key(&field_name, ..): Ok(idx) or Err(idx)
BinarySearch(f, name) ==
    IF Len(f) = 0 THEN [ok |-> FALSE, idx |-> 0]
    ELSE BinarySearchFrom(f, name, 0, Len(f))

\* the mutant of update_value: the value goes to the slot at the found position
update_value_unindexed(f, name, value) ==
    LET res == BinarySearch(f, name)
    IN IF res.ok
       THEN [f EXCEPT ![res.idx + 1].value = value]
       ELSE f

\* the mutant of update_value: a name that is not found takes over the slot at
\* the insertion point
update_value_renaming(f, name, value) ==
    LET res == BinarySearch(f, name)
        pos == IF res.idx < Len(f) THEN res.idx + 1 ELSE Len(f)
    IN IF res.ok
       THEN [f EXCEPT ![f[res.idx + 1].sort_index + 1].value = value]
       ELSE IF Len(f) = 0 THEN f
       ELSE [f EXCEPT ![pos].field = name, ![pos].value = value]

\* ValueVisitor::update_value: the table after the call
update_value(f, name, value) ==
    LET res == BinarySearch(f, name)
    IN IF res.ok
       THEN [f EXCEPT ![f[res.idx + 1].sort_index + 1].value = value]
       ELSE f

-----------------------------------------------------------------------------
(* Activity identity: layer.rs 18-30, 536-554; native/user_events.rs       *)
(* 308-324; native/etw.rs 277-293                                          *)

RECURSIVE to_le_bytes(_, _)
\* u64::to_le_bytes: the n low-order bytes of x, least significant first
to_le_bytes(x, n) ==
    IF n = 0 THEN <<>> ELSE <<x % 256>> \o to_le_bytes(x \div 256, n - 1)

RECURSIVE from_le_bytes(_)
\* u64::from_le_bytes, the decoder a consumer applies to bytes 8..16
from_le_bytes(b) ==
    IF b = <<>> THEN 0 ELSE b[1] + 256 * from_le_bytes(Tail(b))

Zeroes16 == [i \in 1..16 |-> 0]

\* the nanosecond clock readings the seed is drawn from in the model
SeedNanos == {197121, 16909060}

\* GLOBAL_ACTIVITY_SEED: the low half is the seed little-endian, byte 0 forced to 0
GlobalActivitySeed(nanos) ==
    LET half == to_le_bytes(nanos, 8)
    IN [i \in 1..16 |-> IF i = 1 THEN 0 ELSE IF i <= 8 THEN half[i] ELSE 0]

Seeds == { GlobalActivitySeed(n) : n \in SeedNanos }

\* the once_cell Lazy before its first dereference
Unforced == <<>>

\* the mutant of LazyForce: the closure runs at every dereference
LazyForceAgain(cell, nanos) == GlobalActivitySeed(nanos)

\* *GLOBAL_ACTIVITY_SEED: the closure runs at the first dereference only, with the
\* clock reading of that moment
LazyForce(cell, nanos) == IF cell = Unforced THEN GlobalActivitySeed(nanos) ELSE cell

\* the clock reading of the one process of Spec
BootNanos == CHOOSE n \in SeedNanos : \A m \in SeedNanos : m <= n

\* base with its upper half (bytes 8..16) overwritten by id little-endian
WithUpperHalf(base, id) ==
    LET half == to_le_bytes(id, 8)
    IN [i \in 1..16 |-> IF i > 8 THEN half[i - 8] ELSE base[i]]

\* on_new_span: data.activity_id (layer.rs 538, 544-547)
NewSpanActivityId(sd, id) == [WithUpperHalf(sd, id) EXCEPT ![1] = 1]

\* the mutant of NewSpanRelatedActivityId: the presence byte is set, the parent
\* id is not copied
NewSpanRelatedNoCopy(sd, parent_span_id) ==
    IF parent_span_id # 0 THEN [sd EXCEPT ![1] = 1] ELSE [sd EXCEPT ![1] = 0]

\* on_new_span: data.related_activity_id (layer.rs 539, 548-554)
NewSpanRelatedActivityId(sd, parent_span_id) ==
    IF parent_span_id # 0
    THEN [WithUpperHalf(sd, parent_span_id) EXCEPT ![1] = 1]
    ELSE [sd EXCEPT ![1] = 0]

\* write_record: activity_id / related_activity_id from a span id, over `base`
\* (*GLOBAL_ACTIVITY_SEED on user_events, [0; 16] on etw)
WriteRecordId(base, span) ==
    IF span # 0
    THEN [WithUpperHalf(base, span) EXCEPT ![1] = 1]
    ELSE [base EXCEPT ![1] = 0]

\* native/user_events.rs write_record 308-324
UserEventsRecordId(sd, span) == WriteRecordId(sd, span)

\* native/etw.rs write_record 277-293
EtwRecordId(span) == WriteRecordId(Zeroes16, span)

-----------------------------------------------------------------------------
(* Levels, keywords, callsites                                             *)

Backends == {"etw", "user_events", "noop"}

LevelSet == {"ERROR", "WARN", "INFO", "DEBUG", "TRACE"}

\* lib.rs map_level: tracing::Level to the native level number
map_level(level) ==
    CASE level = "ERROR" -> 2
      [] level = "WARN" -> 3
      [] level = "INFO" -> 4
      [] level = "DEBUG" -> 5
      [] level = "TRACE" -> 6

RECURSIVE BitAnd(_, _)
\* a & b on keywords
BitAnd(a, b) ==
    IF a = 0 \/ b = 0 THEN 0
    ELSE (a % 2) * (b % 2) + 2 * BitAnd(a \div 2, b \div 2)

\* LayerBuilder::new: default_keyword: 1
DefaultKeyword == 1

SpanCallsites == {"my_span", "nested_span"}
EventCallsites == {"event main.rs:18", "EtwEventName"}
Callsites == SpanCallsites \cup EventCallsites

\* the tracing Metadata of each callsite: main.rs 18-38, examples/etw_event.rs 11
Metadata(cs) ==
    CASE cs = "my_span" ->
            [name |-> "my_span", level |-> "INFO",
             fields |-> <<"field3", "field2", "field1">>]
      [] cs = "nested_span" ->
            [name |-> "nested_span", level |-> "INFO", fields |-> <<"key">>]
      [] cs = "event main.rs:18" ->
            [name |-> "event main.rs:18", level |-> "INFO",
             fields |-> <<"message", "fieldC", "fieldB", "fieldA">>]
      [] cs = "EtwEventName" ->
            [name |-> "EtwEventName", level |-> "ERROR", fields |-> <<"message">>]

\* the values a callsite gives at creation (span!) or with the event (event!)
CallsiteValues(cs) ==
    CASE cs = "my_span" ->
            << [name |-> "field3", value |-> [t |-> "v_f64", v |-> "4.5"]],
               [name |-> "field2", value |-> [t |-> "v_i64", v |-> "0"]],
               [name |-> "field1", value |-> [t |-> "v_i64", v |-> "0"]] >>
      [] cs = "nested_span" ->
            << [name |-> "key", value |-> [t |-> "v_str", v |-> "value"]] >>
      [] cs = "event main.rs:18" ->
            << [name |-> "message", value |-> [t |-> "v_str", v |-> "inside main!"]],
               [name |-> "fieldC", value |-> [t |-> "v_u64", v |-> "120"]],
               [name |-> "fieldB", value |-> [t |-> "v_str", v |-> "asdf"]],
               [name |-> "fieldA", value |-> [t |-> "v_i64", v |-> "7"]] >>
      [] cs = "EtwEventName" ->
            << [name |-> "message",
                value |-> [t |-> "v_str", v |-> "An event with a name and keyword!"]] >>

\* what span.record is called with in the model: main.rs 32-34, benches 64-66
RecordCalls(cs) ==
    IF cs = "my_span"
    THEN { [name |-> "field1", value |-> [t |-> "v_i64", v |-> "12345"]],
           [name |-> "field2", value |-> [t |-> "v_str", v |-> "9876f64"]],
           [name |-> "invalid", value |-> [t |-> "v_str", v |-> "asdf"]] }
    ELSE {}

\* EVENT_METADATA: the callsites declared with etw_event!, with keyword and tag
EVENT_METADATA == [cs \in {"EtwEventName"} |-> [kw |-> 5, event_tag |-> 0]]

\* the mutant of Keyword: the metadata table is not consulted
KeywordAlwaysDefault(cs, default_keyword) == default_keyword

\* the keyword the filter and the handlers pick for a callsite
Keyword(cs, default_keyword) ==
    IF cs \in DOMAIN EVENT_METADATA THEN EVENT_METADATA[cs].kw ELSE default_keyword

\* the tag the handlers pick for a callsite
EventTag(cs) ==
    IF cs \in DOMAIN EVENT_METADATA THEN EVENT_METADATA[cs].event_tag ELSE 0

-----------------------------------------------------------------------------
(* Provider enablement: native/etw.rs 144-153, native/user_events.rs        *)
(* 85-162, native/noop.rs 38-46                                            *)

\* the controller states of the model: nothing enabled; up to INFO with keyword 1;
\* up to ERROR with keyword 4
SessionStates ==
    { [level |-> -1, any |-> 0], [level |-> 4, any |-> 1], [level |-> 2, any |-> 4] }

\* native/etw.rs enabled: the provider's level and keyword mask as pushed by ETW
EtwEnabled(sess, level, keyword) ==
    level <= sess.level /\ (keyword = 0 \/ BitAnd(keyword, sess.any) # 0)

\* EventSet::enabled: a consumer is attached to the set's tracepoint
TracepointEnabled(sess, level, keyword) ==
    level <= sess.level /\ BitAnd(keyword, sess.any) # 0

\* the mutant of UserEventsEnabled: the tracepoint state is answered without
\* looking the event set up
UserEventsEnabledNoLookup(sets, sess, level, keyword) ==
    TracepointEnabled(sess, level, keyword)

\* native/user_events.rs enabled: false without an event set, else the set's state
UserEventsEnabled(sets, sess, level, keyword) ==
    IF <<level, keyword>> \in sets THEN TracepointEnabled(sess, level, keyword) ELSE FALSE

\* EventWriter::enabled of the backend compiled in
ProviderEnabled(b, sets, sess, level, keyword) ==
    CASE b = "etw" -> EtwEnabled(sess, level, keyword)
      [] b = "user_events" -> UserEventsEnabled(sets, sess, level, keyword)
      [] b = "noop" -> FALSE

\* the mutant of UserEventsNewSets: only the sets of the default keyword
UserEventsNewSetsDefaultOnly(default_keyword) ==
    { <<map_level(l), default_keyword>> : l \in LevelSet }

\* native/user_events.rs Provider::new: the event sets registered at construction
UserEventsNewSets(default_keyword) ==
    { <<map_level(l), k>> :
        l \in LevelSet,
        k \in { EVENT_METADATA[c].kw : c \in DOMAIN EVENT_METADATA } \cup {default_keyword} }

\* the mutant of supports_enable_callback: every real backend claims a callback
supports_enable_callback_all(b) == b # "noop"

\* EventWriter::supports_enable_callback
supports_enable_callback(b) ==
    CASE b = "etw" -> TRUE
      [] b = "user_events" -> FALSE
      [] b = "noop" -> FALSE

\* EtwFilter::callsite_enabled, layer.rs 321-343
callsite_enabled(b, sets, sess, cs) ==
    LET keyword == Keyword(cs, DefaultKeyword)
    IN IF supports_enable_callback(b)
       THEN IF ProviderEnabled(b, sets, sess, map_level(Metadata(cs).level), keyword)
            THEN "always"
            ELSE "never"
       ELSE "sometimes"

\* EtwFilter::enabled / event_enabled, layer.rs 345-375
FilterEnabled(b, sets, sess, cs) ==
    ProviderEnabled(b, sets, sess, map_level(Metadata(cs).level),
                    Keyword(cs, DefaultKeyword))

\* the Interest a callsite has after its registration
InterestOf(cache, b, sets, sess, cs) ==
    IF cache[cs] = "unset" THEN callsite_enabled(b, sets, sess, cs) ELSE cache[cs]

\* Filtered<EtwLayer, EtwFilter>: whether the layer sees a span or event of cs.
\* never: not seen; always: seen without asking; sometimes: enabled() is asked
LayerSees(cache, b, sets, sess, cs) ==
    LET i == InterestOf(cache, b, sets, sess, cs)
    IN CASE i = "always" -> TRUE
         [] i = "never" -> FALSE
         [] i = "sometimes" -> FilterEnabled(b, sets, sess, cs)

\* the mutant of RebuildInterestCache: the callback leaves the cache as it is
RebuildInterestCacheStale(cache, b, sets, sess) == cache

\* callback_fn: rebuild_interest_cache asks callsite_enabled again for every
\* registered callsite
RebuildInterestCache(cache, b, sets, sess) ==
    [cs \in Callsites |->
        IF cache[cs] = "unset" THEN "unset" ELSE callsite_enabled(b, sets, sess, cs)]

-----------------------------------------------------------------------------
(* The span registry as the layer sees it through its Context               *)

\* the ids the registry hands out, in creation order: each span! statement of
\* the program runs once
SpanIds == 1..Cardinality(SpanCallsites)

NoSpan == [cs |-> "", parent |-> 0, enabled |-> FALSE]

NoData == [fields |-> <<>>, activity_id |-> <<>>, related_activity_id |-> <<>>,
           start_time |-> -1]

\* span::Attributes of a new span: contextual, root or with an explicit parent
AttrsFor(ids) ==
    { [kind |-> "Current", id |-> 0], [kind |-> "Root", id |-> 0] }
        \cup { [kind |-> "Explicit", id |-> p] : p \in ids }

\* Attributes::is_contextual: the parent is to be taken from the current span
is_contextual(attrs) == attrs.kind = "Current"

\* Attributes::parent: the explicit parent, 0 for None
attrs_parent(attrs) == IF attrs.kind = "Explicit" THEN attrs.id ELSE 0

\* on_new_span: parent_span_id, layer.rs 503-507
parent_span_id(attrs) == IF is_contextual(attrs) THEN attrs_parent(attrs) ELSE 0

\* the parent the registry gives the new span
RegistryParent(attrs, st) ==
    CASE attrs.kind = "Current" -> IF st = <<>> THEN 0 ELSE Last(st)
      [] attrs.kind = "Explicit" -> attrs.id
      [] attrs.kind = "Root" -> 0

RECURSIVE LookupCurrent(_, _)
\* ctx.event_span(event): the innermost entered span the layer's filter enabled
LookupCurrent(r, st) ==
    IF st = <<>> THEN 0
    ELSE IF r[Last(st)].enabled THEN Last(st)
    ELSE LookupCurrent(r, Front(st))

RECURSIVE FilteredParent(_, _)
\* evt.parent(): the nearest ancestor the layer's filter enabled, 0 for none
FilteredParent(r, id) ==
    IF id = 0 \/ r[id].parent = 0 THEN 0
    ELSE IF r[r[id].parent].enabled THEN r[id].parent
    ELSE FilteredParent(r, r[id].parent)

-----------------------------------------------------------------------------
(* EtwLayer::on_new_span, layer.rs 485-563                                 *)

RECURSIVE RecordAll(_, _)
\* values.record(&mut ValueVisitor): one update_value per recorded value
RecordAll(f, values) ==
    IF values = <<>> THEN f
    ELSE RecordAll(update_value(f, values[1].name, values[1].value), Tail(values))

\* the mutant of on_new_span: an existing EtwLayerData is replaced by a new one
on_new_span_overwriting(data, sd, id, cs, attrs) ==
    [fields |-> RecordAll(NewFields(Metadata(cs).fields), CallsiteValues(cs)),
     activity_id |-> NewSpanActivityId(sd, id),
     related_activity_id |-> NewSpanRelatedActivityId(sd, parent_span_id(attrs)),
     start_time |-> 0]

\* the EtwLayerData on_new_span stores; an existing one is left alone (497-499)
on_new_span(data, sd, id, cs, attrs) ==
    IF data # NoData THEN data
    ELSE [fields |-> RecordAll(NewFields(Metadata(cs).fields), CallsiteValues(cs)),
          activity_id |-> NewSpanActivityId(sd, id),
          related_activity_id |-> NewSpanRelatedActivityId(sd, parent_span_id(attrs)),
          start_time |-> 0]

RECURSIVE ReferenceMap(_, _)
\* the reference map after the given values were recorded, in order
ReferenceMap(m, values) ==
    IF values = <<>> THEN m
    ELSE ReferenceMap(
            IF values[1].name \in DOMAIN m
            THEN [m EXCEPT ![values[1].name] = values[1].value] ELSE m,
            Tail(values))

NoRecorded == [n \in {} |-> NoneValue]

\* the reference map of a new span: its declared names, with the creation values
NewRecorded(cs) ==
    LET names == Metadata(cs).fields
    IN ReferenceMap([n \in { names[i] : i \in 1..Len(names) } |-> NoneValue],
                    CallsiteValues(cs))

-----------------------------------------------------------------------------
(* The encoders: native/etw.rs 155-327, native/user_events.rs 164-359      *)

\* the fixed-format timestamp field every event starts with
TimeField(name, ts) == [name |-> name, value |-> [t |-> "time", v |-> ToString(ts)]]

\* the mutant of add_field_value: a None value is written as a field too
add_field_value_with_none(payload, fv) ==
    Append(payload, [name |-> fv.name, value |-> fv.value])

\* AddFieldAndValue::add_field_value: None adds nothing, any other value one field
add_field_value(payload, fv) ==
    IF fv.value = NoneValue THEN payload
    ELSE Append(payload, [name |-> fv.name, value |-> fv.value])

RECURSIVE AddSlots(_, _)
\* for f in fields { add_field_value(.. f.field, &f.value ..) }
AddSlots(payload, f) ==
    IF f = <<>> THEN payload
    ELSE AddSlots(add_field_value(payload, [name |-> f[1].field, value |-> f[1].value]),
                  Tail(f))

RECURSIVE AddValues(_, _)
\* event.record(&mut visitor): add_field_value per value of the event
AddValues(payload, values) ==
    IF values = <<>> THEN payload
    ELSE AddValues(add_field_value(payload, values[1]), Tail(values))

\* the mutant of Attached: the GUID is always passed to the write call
AttachedAlways(id16) == TRUE

\* if id[0] != 0 { Some(id) } else { None }: whether the write call gets the GUID
Attached(id16) == id16[1] # 0

\* the mutant of SpanStartEvent: the opcode of the stop event is written
SpanStartEventStop(b, span, name, ts, activity_id, related_activity_id, f, level, keyword, tag) ==
    [op |-> IF b = "etw" THEN "Stop" ELSE "ActivityStop",
     span |-> span, name |-> name, level |-> level, keyword |-> keyword, tag |-> tag,
     activity_id |-> activity_id, related_activity_id |-> related_activity_id,
     attach_activity |-> Attached(activity_id),
     attach_related |-> Attached(related_activity_id),
     payload |-> AddSlots(<<TimeField("start time", ts)>>, f)]

\* span_start: the event written for on_enter
SpanStartEvent(b, span, name, ts, activity_id, related_activity_id, f, level, keyword, tag) ==
    [op |-> IF b = "etw" THEN "Start" ELSE "ActivityStart",
     span |-> span, name |-> name, level |-> level, keyword |-> keyword, tag |-> tag,
     activity_id |-> activity_id, related_activity_id |-> related_activity_id,
     attach_activity |-> Attached(activity_id),
     attach_related |-> Attached(related_activity_id),
     payload |-> AddSlots(<<TimeField("start time", ts)>>, f)]

\* span_stop: the event written for on_exit
SpanStopEvent(b, span, name, times, activity_id, related_activity_id, f, level, keyword, tag) ==
    [op |-> IF b = "etw" THEN "Stop" ELSE "ActivityStop",
     span |-> span, name |-> name, level |-> level, keyword |-> keyword, tag |-> tag,
     activity_id |-> activity_id, related_activity_id |-> related_activity_id,
     attach_activity |-> Attached(activity_id),
     attach_related |-> Attached(related_activity_id),
     payload |-> AddSlots(<<TimeField("stop time", times[2])>>, f)]

\* the mutant of RecordId: the presence byte is set whether or not there is a span
RecordIdAlwaysPresent(b, sd, span) ==
    [WithUpperHalf(IF b = "etw" THEN Zeroes16 ELSE sd, span) EXCEPT ![1] = 1]

\* write_record: the activity / related activity id of the backend
RecordId(b, sd, span) ==
    IF b = "etw" THEN EtwRecordId(span) ELSE UserEventsRecordId(sd, span)

\* write_record: the event written for on_event; etw resets the builder with tag 0
WriteRecordEvent(b, sd, ts, current_span, parent_span, name, level, keyword, tag, values) ==
    LET activity_id == RecordId(b, sd, current_span)
        related_activity_id == RecordId(b, sd, parent_span)
    IN [op |-> "Info",
        span |-> current_span, name |-> name, level |-> level, keyword |-> keyword,
        tag |-> IF b = "etw" THEN 0 ELSE tag,
        activity_id |-> activity_id, related_activity_id |-> related_activity_id,
        attach_activity |-> Attached(activity_id),
        attach_related |-> Attached(related_activity_id),
        payload |-> AddValues(<<TimeField("time", ts)>>, values)]

\* what a handler's encoder call does to the log: noop writes nothing
Written(b, log, ev) == IF b = "noop" THEN log ELSE Append(log, ev)

\* find_set / register_set before the write: user_events registers a missing set
SetsAfterWrite(b, sets, level, keyword) ==
    IF b = "user_events" THEN sets \cup {<<level, keyword>>} ELSE sets

-----------------------------------------------------------------------------
(* The resting values of each part of the state, for the specifications that  *)
(* do not exercise it                                                       *)

NoUpdate == ""

TableIdle ==
    /\ declared = <<>>
    /\ fields = <<>>
    /\ assigned = [n \in NameSet |-> NoneValue]
    /\ lastUpdate = NoUpdate
    /\ tpc = "idle"

NoDerivation == [site |-> "none", activity_id |-> <<>>, related_activity_id |-> <<>>]

IdsIdle ==
    /\ self_id = 0
    /\ parent_id = 0
    /\ derived = NoDerivation
    /\ earlier = NoDerivation

ProviderNames == {"test", "test2"}

NoBuild == [fn |-> "none"]

BuildIdle ==
    /\ built = <<>>
    /\ native_registrations = [n \in ProviderNames |-> 0]
    /\ lastBuild = NoBuild

NoCheck == [level |-> 0, keyword |-> 0, result |-> FALSE]

\* EventBuilder::new(): nothing set, no field
NewBuilder == [name |-> "", opcode |-> "Info", tag |-> 0, fields |-> <<>>]

NoWrite == [written |-> FALSE]

NoCall == [fn |-> "none"]

EncIdle ==
    /\ mode = "native"
    /\ slots = <<>>
    /\ eb = NewBuilder
    /\ wire = NoWrite
    /\ panicked = FALSE
    /\ unwound = FALSE
    /\ encoded = NoCall

NoDispatch == [cs |-> "none"]

TargetsIdle ==
    /\ subscriber = <<>>
    /\ dispatched = NoDispatch

\* the threads that enter the span
Threads == {1, 2}

NoHandler == [fn |-> "none"]

NoStop == [start_time |-> -1]

EnterIdle ==
    /\ entries = [t \in Threads |-> <<>>]
    /\ handler = [t \in Threads |-> NoHandler]
    /\ start_time = 0
    /\ stopped = NoStop

NoTable == [state |-> "unforced"]

MetaIdle ==
    /\ section = <<>>
    /\ table = NoTable

NoActivities == [generated |-> FALSE]

NoField == [fn |-> "none"]

WideIdle ==
    /\ wide_value = [t |-> "None"]
    /\ wide_field = NoField

NoHandled == [fn |-> "none"]

ExtraIdle ==
    /\ EnterIdle
    /\ MetaIdle
    /\ activities = NoActivities
    /\ WideIdle
    /\ handled = NoHandled

AuxIdle ==
    /\ checked = NoCheck
    /\ EncIdle
    /\ TargetsIdle
    /\ ExtraIdle

LayerIdle ==
    /\ session = [level |-> -1, any |-> 0]
    /\ changes = 0
    /\ eventSets = {}
    /\ interest = [cs \in Callsites |-> "unset"]
    /\ reg = [id \in SpanIds |-> NoSpan]
    /\ ext = [id \in SpanIds |-> NoData]
    /\ recorded = [id \in SpanIds |-> NoRecorded]
    /\ stack = <<>>
    /\ events = <<>>
    /\ clock = 1

-----------------------------------------------------------------------------
(* SpecTable: one span's field table, allocated and then updated           *)

TableInit ==
    /\ declared \in DistinctNameSeqs(MaxFields)
    /\ fields = <<>>
    /\ assigned = [n \in NameSet |-> NoneValue]
    /\ lastUpdate = NoUpdate
    /\ tpc = "new"
    /\ IdsIdle
    /\ BuildIdle
    /\ backend = "noop"
    /\ seed = Zeroes16
    /\ LayerIdle
    /\ AuxIdle

\* on_new_span, layer.rs 509-534: the table for the declared names
AllocateTable ==
    /\ tpc = "new"
    /\ Len(declared) <= IndexesLen
    /\ fields' = NewFields(declared)
    /\ tpc' = "live"
    /\ UNCHANGED <<declared, assigned, lastUpdate, idVars, buildVars, backend, seed, layerVars, auxVars>>

\* one update_value call of a Visit callback (on_record or the initial values)
UpdateValue(name, value) ==
    /\ tpc = "live"
    /\ fields' = update_value(fields, name, value)
    /\ lastUpdate' = name
    /\ assigned' = IF \E i \in 1..Len(declared) : declared[i] = name
                   THEN [assigned EXCEPT ![name] = value]
                   ELSE assigned
    /\ UNCHANGED <<declared, tpc, idVars, buildVars, backend, seed, layerVars, auxVars>>

TableUpdate == \E name \in NameSet, value \in RecordValues : UpdateValue(name, value)

TableNext == AllocateTable \/ TableUpdate

SpecTable == TableInit /\ [][TableNext]_vars

DeclaredSet == { declared[i] : i \in 1..Len(declared) }

\* C1: after any updates of declared names, the slots read in slice order give at
\* position i the i-th declared name with exactly the value last set for that name
C1_RoundTrip ==
    tpc = "live" =>
        /\ Len(fields) = Len(declared)
        /\ \A i \in 1..Len(fields) :
              /\ fields[i].field = declared[i]
              /\ fields[i].value = assigned[declared[i]]

\* C1 witness: three names declared out of name order, each updated with its own value
C1_Witness ==
    /\ tpc = "live"
    /\ Len(declared) = MaxFields
    /\ Rank(declared[1]) > Rank(declared[2])
    /\ \A i \in 1..Len(declared) : assigned[declared[i]] # NoneValue
    /\ \A i, j \in 1..Len(declared) :
          i # j => assigned[declared[i]] # assigned[declared[j]]
    /\ lastUpdate = declared[1]

\* C2: an update_value with a name that is not declared leaves every slot's name,
\* value and sort index as it was
C2_UnknownNoOp ==
    [][(tpc = "live" /\ lastUpdate' \notin DeclaredSet) => fields' = fields]_vars

\* C2 witness: an undeclared name was given to update_value of a table that
\* already holds a value
C2_Witness ==
    /\ tpc = "live"
    /\ lastUpdate # NoUpdate
    /\ lastUpdate \notin DeclaredSet
    /\ Len(fields) >= 2
    /\ \E i \in 1..Len(fields) : fields[i].value # NoneValue

\* C27: once on_new_span allocated the table, and after any updates, the
\* sort_index values of the slots are a permutation of 0..n-1, the names read
\* through them are in non-decreasing order, and the binary search of
\* update_value finds every declared name at a position whose sort_index leads
\* to the slot that carries the name
C27_SortIndex ==
    tpc = "live" =>
        LET n == Len(fields)
        IN /\ n = Len(declared)
           /\ { fields[i].sort_index : i \in 1..n } = 0..(n - 1)
           /\ \A pos \in 1..(n - 1) :
                 CmpName(SearchKey(fields, pos - 1), SearchKey(fields, pos)) # "Greater"
           /\ \A name \in DeclaredSet :
                 LET res == BinarySearch(fields, name)
                 IN /\ res.ok
                    /\ fields[fields[res.idx + 1].sort_index + 1].field = name

\* C27's case: a table of three names declared in descending name order, so
\* that no slot keeps its own index, after an update of each declared name
C27_Witness ==
    /\ tpc = "live"
    /\ Len(fields) = MaxFields
    /\ Rank(declared[1]) > Rank(declared[2])
    /\ Rank(declared[2]) > Rank(declared[3])
    /\ fields[1].sort_index = 2
    /\ \A i \in 1..Len(fields) : fields[i].value # NoneValue

-----------------------------------------------------------------------------
(* SpecIds: the derivations applied to drawn (self_id, parent_id)          *)

\* the span ids the derivations are applied to; 0 is "no span"
IdInputs == {0, 1, 2, 255, 256, 65537, 2147483647}

IdsInit ==
    /\ self_id \in IdInputs
    /\ parent_id \in IdInputs
    /\ seed = Unforced
    /\ derived = NoDerivation
    /\ earlier = NoDerivation
    /\ TableIdle
    /\ BuildIdle
    /\ backend = "noop"
    /\ LayerIdle
    /\ AuxIdle

\* on_new_span derives both ids over *GLOBAL_ACTIVITY_SEED; a span::Id is never 0;
\* nanos is what the clock reads when the call is made
DeriveNewSpan(nanos) ==
    /\ self_id # 0
    /\ seed' = LazyForce(seed, nanos)
    /\ derived' = [site |-> "on_new_span",
                   activity_id |-> NewSpanActivityId(seed', self_id),
                   related_activity_id |-> NewSpanRelatedActivityId(seed', parent_id)]
    /\ earlier' = derived
    /\ UNCHANGED <<self_id, parent_id, tableVars, buildVars, backend, layerVars, auxVars>>

\* write_record of the kernel tracepoint backend derives both ids over
\* *GLOBAL_ACTIVITY_SEED
DeriveUserEventsRecord(nanos) ==
    /\ seed' = LazyForce(seed, nanos)
    /\ derived' = [site |-> "user_events",
                   activity_id |-> UserEventsRecordId(seed', self_id),
                   related_activity_id |-> UserEventsRecordId(seed', parent_id)]
    /\ earlier' = derived
    /\ UNCHANGED <<self_id, parent_id, tableVars, buildVars, backend, layerVars, auxVars>>

\* write_record of the native self-describing backend derives both ids over [0; 16]
DeriveEtwRecord ==
    /\ derived' = [site |-> "etw",
                   activity_id |-> EtwRecordId(self_id),
                   related_activity_id |-> EtwRecordId(parent_id)]
    /\ earlier' = derived
    /\ UNCHANGED <<self_id, parent_id, seed, tableVars, buildVars, backend, layerVars, auxVars>>

IdsNext ==
    \/ \E nanos \in SeedNanos : DeriveNewSpan(nanos)
    \/ \E nanos \in SeedNanos : DeriveUserEventsRecord(nanos)
    \/ DeriveEtwRecord

SpecIds == IdsInit /\ [][IdsNext]_vars

\* the presence byte and the upper half of a derived id agree with the span id
PresenceConsistent(bytes, span) ==
    /\ Len(bytes) = 16
    /\ span = 0 => bytes[1] = 0
    /\ span # 0 => bytes[1] = 1 /\ from_le_bytes(SubSeq(bytes, 9, 16)) = span

\* C7: in on_new_span and in write_record, parent_id = 0 gives a RelatedActivityId
\* with byte 0 = 0, parent_id # 0 gives byte 0 = 1 and bytes 8..16 that decode
\* little-endian to parent_id; likewise the ActivityId for self_id
C7_PresenceByte ==
    derived.site # "none" =>
        /\ PresenceConsistent(derived.related_activity_id, parent_id)
        /\ PresenceConsistent(derived.activity_id, self_id)

\* C7 witness: on_new_span derived the ids of a span whose parent id takes more
\* than one byte, over a seed with non-zero bytes
C7_Witness ==
    /\ derived.site = "on_new_span"
    /\ parent_id > 255
    /\ self_id # parent_id
    /\ seed[2] # 0


\* C14: two derivations at one site with the same (self_id, parent_id) in one
\* process give the same two 16-byte ids; the seed is computed once, at its first
\* use, and its byte 0 is 0; a derivation changes neither its inputs nor, once
\* the seed is computed, any other state
C14_Deterministic ==
    /\ [](seed # Unforced => Len(seed) = 16 /\ seed[1] = 0)
    /\ [](derived.site = earlier.site => derived = earlier)
    /\ [][ /\ seed # Unforced => seed' = seed
           /\ self_id' = self_id
           /\ parent_id' = parent_id
           /\ UNCHANGED <<tableVars, buildVars, backend, layerVars, auxVars>> ]_vars

\* C14's case: on_new_span derived the ids of a span with a parent twice, over a
\* seed with non-zero bytes
C14_Witness ==
    /\ derived.site = "on_new_span"
    /\ earlier.site = "on_new_span"
    /\ parent_id # 0
    /\ seed[2] # 0
    /\ Len(derived.activity_id) = 16

-----------------------------------------------------------------------------
(* SpecBuild: the layer builder builds layers, layer.rs 243-307            *)

BuildInit ==
    /\ backend \in Backends
    /\ seed = Zeroes16
    /\ built = <<>>
    /\ native_registrations = [n \in ProviderNames |-> 0]
    /\ lastBuild = NoBuild
    /\ TableIdle
    /\ IdsIdle
    /\ LayerIdle
    /\ AuxIdle

\* the GUIDs a builder is given: Guid::zero(), Guid::from_name(name), another one
GuidZero == "00000000-0000-0000-0000-000000000000"
GuidFromName == "from_name"
GuidOther == "9e5a0b2c-7d41-4c1e-8f63-1b2a3c4d5e6f"

\* the group names given to with_provider_group on Linux, as their characters
GroupNames == { <<"g", "r", "p", "1">>, <<"G", "r", "p">>, <<"g", "-", "1">> }

\* the provider groups a builder can hold on the platform of the backend:
\* with_provider_group is compiled for Windows (a GUID) or for Linux (a name)
ProviderGroups(b) ==
    {[kind |-> "Unset"]}
        \cup (IF b = "etw" THEN { [kind |-> "Windows", guid |-> g] : g \in {GuidZero, GuidOther} }
              ELSE {})
        \cup (IF b = "user_events" THEN { [kind |-> "Linux", name |-> n] : n \in GroupNames }
              ELSE {})

LowerAsciiOrDigit ==
    { "a", "b", "c", "d", "e", "f", "g", "h", "i", "j", "k", "l", "m", "n", "o", "p", "q",
      "r", "s", "t", "u", "v", "w", "x", "y", "z",
      "0", "1", "2", "3", "4", "5", "6", "7", "8", "9" }

\* eventheader_dynamic::ProviderOptions::is_valid_option_value
is_valid_option_value(name) == \A i \in 1..Len(name) : name[i] \in LowerAsciiOrDigit

\* validate_config: TRUE when no assert fails
validate_config(provider_id, provider_group) ==
    CASE provider_group.kind = "Unset" -> TRUE
      [] provider_group.kind = "Windows" -> provider_group.guid # GuidZero
      [] provider_group.kind = "Linux" -> is_valid_option_value(provider_group.name)

\* Provider::new of the backend: etw registers the provider (native/etw.rs
\* 130-139), user_events opens it and registers its event sets
\* (native/user_events.rs 98-142), noop registers nothing (native/noop.rs 35)
RegistrationsOfNew(b) == IF b = "noop" THEN 0 ELSE 1

\* build_layer calls Mode::Provider::new for the name and keeps the handle it
\* returns
BuildLayer(name, default_keyword) ==
    /\ built' = Append(built, [provider_name |-> name,
                               default_keyword |-> default_keyword,
                               handle |-> Len(built) + 1])
    /\ native_registrations' =
          [native_registrations EXCEPT ![name] = @ + RegistrationsOfNew(backend)]

\* build (fn = "build") and build_with_target (fn = "build_with_target") of a
\* builder made by LayerBuilder::new(name) and the with_* calls: validate_config,
\* whose failed assert unwinds before anything is built, then build_layer
Build(fn, name, provider_id, provider_group, default_keyword) ==
    /\ Len(built) < MaxLayers
    /\ IF validate_config(provider_id, provider_group)
       THEN /\ BuildLayer(name, default_keyword)
            /\ lastBuild' = [fn |-> fn, provider_id |-> provider_id,
                             provider_group |-> provider_group, outcome |-> "layer"]
       ELSE /\ lastBuild' = [fn |-> fn, provider_id |-> provider_id,
                             provider_group |-> provider_group, outcome |-> "panic"]
            /\ UNCHANGED <<built, native_registrations>>
    /\ UNCHANGED <<tableVars, idVars, backend, seed, layerVars, auxVars>>

BuildNext ==
    \E fn \in {"build", "build_with_target"}, name \in ProviderNames,
       provider_id \in {GuidFromName, GuidZero}, provider_group \in ProviderGroups(backend),
       kw \in {1, 2} :
        Build(fn, name, provider_id, provider_group, kw)

SpecBuild == BuildInit /\ [][BuildNext]_vars

\* C6: a provider is created and natively registered at most once per name, and
\* the layers built with one name hold the same provider handle
C6_SingleCreation ==
    /\ \A n \in ProviderNames : native_registrations[n] <= 1
    /\ \A i, j \in 1..Len(built) :
          built[i].provider_name = built[j].provider_name
              => built[i].handle = built[j].handle

\* C19: build and build_with_target panic exactly when a provider group is set
\* and the provider identifier is the all-zero GUID, or the group is a kernel
\* tracepoint group name with a character that is not a lowercase ASCII letter
\* or a digit; otherwise they return a layer
C19_SetupValidation ==
    lastBuild # NoBuild =>
        (lastBuild.outcome = "panic" <=>
            \/ /\ lastBuild.provider_group.kind # "Unset"
               /\ lastBuild.provider_id = GuidZero
            \/ /\ lastBuild.provider_group.kind = "Linux"
               /\ ~is_valid_option_value(lastBuild.provider_group.name))

-----------------------------------------------------------------------------
(* Spec: one layer, built by LayerBuilder::new(..).build(), at run time    *)

\* the provider name of the layer: LayerBuilder::new("test"), main.rs 11
LayerName == "test"

Init ==
    /\ backend \in Backends
    /\ seed = GlobalActivitySeed(BootNanos)
    /\ session \in SessionStates
    /\ changes = 0
    /\ eventSets = IF backend = "user_events" THEN UserEventsNewSets(DefaultKeyword) ELSE {}
    /\ interest = [cs \in Callsites |-> "unset"]
    /\ reg = [id \in SpanIds |-> NoSpan]
    /\ ext = [id \in SpanIds |-> NoData]
    /\ recorded = [id \in SpanIds |-> NoRecorded]
    /\ stack = <<>>
    /\ events = <<>>
    /\ clock = 1
    /\ built = << [provider_name |-> LayerName, default_keyword |-> DefaultKeyword,
                   handle |-> 1] >>
    /\ native_registrations =
          [n \in ProviderNames |-> IF n = LayerName THEN RegistrationsOfNew(backend) ELSE 0]
    /\ lastBuild = [fn |-> "build", provider_id |-> GuidFromName,
                    provider_group |-> [kind |-> "Unset"], outcome |-> "layer"]
    /\ TableIdle
    /\ IdsIdle
    /\ AuxIdle

Existing == { id \in SpanIds : reg[id] # NoSpan }

OnStack(id) == \E i \in 1..Len(stack) : stack[i] = id

\* the callsite is registered on its first use: callsite_enabled answers its Interest
Registered(cs) ==
    [interest EXCEPT ![cs] = InterestOf(interest, backend, eventSets, session, cs)]

\* span!(..): the registry creates the span; the layer's on_new_span runs when its
\* filter enabled the span
NewSpan(cs, attrs) ==
    LET id == Cardinality(Existing) + 1
        sees == LayerSees(interest, backend, eventSets, session, cs)
    IN /\ \A other \in Existing : reg[other].cs # cs
       /\ reg' = [reg EXCEPT ![id] = [cs |-> cs,
                                      parent |-> RegistryParent(attrs, stack),
                                      enabled |-> sees]]
       /\ interest' = Registered(cs)
       /\ IF sees
          THEN /\ ext' = [ext EXCEPT ![id] = on_new_span(ext[id], seed, id, cs, attrs)]
               /\ recorded' = [recorded EXCEPT ![id] = NewRecorded(cs)]
          ELSE UNCHANGED <<ext, recorded>>
       /\ UNCHANGED <<session, changes, eventSets, stack, events, clock>>
       /\ UNCHANGED <<tableVars, idVars, buildVars, backend, seed, auxVars>>

\* span.record(name, value): on_record, layer.rs 650-675
OnRecord(id, call) ==
    /\ reg[id] # NoSpan
    /\ reg[id].enabled
    /\ IF ext[id] = NoData
       THEN UNCHANGED <<ext, recorded>>
       ELSE /\ ext' = [ext EXCEPT
                         ![id].fields = update_value(@, call.name, call.value)]
            /\ recorded' = [recorded EXCEPT
                              ![id] = ReferenceMap(@, <<call>>)]
    /\ UNCHANGED <<session, changes, eventSets, interest, reg, stack, events, clock>>
    /\ UNCHANGED <<tableVars, idVars, buildVars, backend, seed, auxVars>>

\* span.enter(): on_enter, layer.rs 565-604
OnEnter(id) ==
    /\ reg[id] # NoSpan
    /\ ~OnStack(id)
    /\ stack' = Append(stack, id)
    /\ IF reg[id].enabled
       THEN /\ clock < MaxClock
            /\ clock' = clock + 1
            /\ IF ext[id] = NoData
               THEN UNCHANGED <<ext, events, eventSets>>
               ELSE LET cs == reg[id].cs
                        level == map_level(Metadata(cs).level)
                        keyword == Keyword(cs, DefaultKeyword)
                    IN /\ events' = Written(backend, events,
                              SpanStartEvent(backend, id, Metadata(cs).name, clock,
                                  ext[id].activity_id, ext[id].related_activity_id,
                                  ext[id].fields, level, keyword, EventTag(cs)))
                       /\ eventSets' = SetsAfterWrite(backend, eventSets, level, keyword)
                       /\ ext' = [ext EXCEPT ![id].start_time = clock]
       ELSE UNCHANGED <<ext, events, eventSets, clock>>
    /\ UNCHANGED <<session, changes, interest, reg, recorded>>
    /\ UNCHANGED <<tableVars, idVars, buildVars, backend, seed, auxVars>>

\* the guard of span.enter() is dropped: on_exit, layer.rs 606-643
OnExit(id) ==
    /\ stack # <<>>
    /\ Last(stack) = id
    /\ stack' = Front(stack)
    /\ IF reg[id].enabled
       THEN /\ clock < MaxClock
            /\ clock' = clock + 1
            /\ IF ext[id] = NoData
               THEN UNCHANGED <<events, eventSets>>
               ELSE LET cs == reg[id].cs
                        level == map_level(Metadata(cs).level)
                        keyword == Keyword(cs, DefaultKeyword)
                    IN /\ events' = Written(backend, events,
                              SpanStopEvent(backend, id, Metadata(cs).name,
                                  <<ext[id].start_time, clock>>,
                                  ext[id].activity_id, ext[id].related_activity_id,
                                  ext[id].fields, level, keyword, EventTag(cs)))
                       /\ eventSets' = SetsAfterWrite(backend, eventSets, level, keyword)
       ELSE UNCHANGED <<events, eventSets, clock>>
    /\ UNCHANGED <<session, changes, interest, reg, ext, recorded>>
    /\ UNCHANGED <<tableVars, idVars, buildVars, backend, seed, auxVars>>

\* event!(..): on_event, layer.rs 455-483, when the layer's filter lets it through
OnEvent(cs) ==
    /\ interest' = Registered(cs)
    /\ IF LayerSees(interest, backend, eventSets, session, cs)
       THEN LET current_span == LookupCurrent(reg, stack)
                parent_span == FilteredParent(reg, current_span)
                level == map_level(Metadata(cs).level)
                keyword == Keyword(cs, DefaultKeyword)
            IN /\ clock < MaxClock
               /\ clock' = clock + 1
               /\ events' = Written(backend, events,
                      WriteRecordEvent(backend, seed, clock, current_span, parent_span,
                          Metadata(cs).name, level, keyword, EventTag(cs),
                          CallsiteValues(cs)))
               /\ eventSets' = SetsAfterWrite(backend, eventSets, level, keyword)
       ELSE UNCHANGED <<events, eventSets, clock>>
    /\ UNCHANGED <<session, changes, reg, ext, recorded, stack>>
    /\ UNCHANGED <<tableVars, idVars, buildVars, backend, seed, auxVars>>

\* the controller changes what is enabled; on etw the provider's callback_fn
\* runs and rebuilds the interest cache (native/etw.rs 93-104)
ControllerEnable(sess) ==
    /\ sess # session
    /\ changes < MaxChanges
    /\ changes' = changes + 1
    /\ session' = sess
    /\ interest' = IF backend = "etw"
                   THEN RebuildInterestCache(interest, backend, eventSets, sess)
                   ELSE interest
    /\ UNCHANGED <<eventSets, reg, ext, recorded, stack, events, clock>>
    /\ UNCHANGED <<tableVars, idVars, buildVars, backend, seed, auxVars>>

CreateSpan == \E cs \in SpanCallsites, attrs \in AttrsFor(Existing) : NewSpan(cs, attrs)
RecordSpan == \E id \in SpanIds : \E call \in RecordCalls(reg[id].cs) : OnRecord(id, call)
EnterSpan == \E id \in SpanIds : OnEnter(id)
ExitSpan == \E id \in SpanIds : OnExit(id)
EmitEvent == \E cs \in EventCallsites : OnEvent(cs)
Control == \E sess \in SessionStates : ControllerEnable(sess)

Next == CreateSpan \/ RecordSpan \/ EnterSpan \/ ExitSpan \/ EmitEvent \/ Control

Spec == Init /\ [][Next]_vars

TypeOK ==
    /\ backend \in Backends
    /\ session \in SessionStates
    /\ clock \in 1..MaxClock
    /\ \A id \in SpanIds : ext[id] # NoData => reg[id].enabled

-----------------------------------------------------------------------------
(* The claims about the layer at run time                                   *)

IsStart(e) == e.op \in {"Start", "ActivityStart"}
IsStop(e) == e.op \in {"Stop", "ActivityStop"}

\* the events of the log that open or close the span, in the order written
SpanLifecycle(id) == SelectSeq(events, LAMBDA e : e.span = id /\ ~(e.op = "Info"))

\* the payload of an event without its leading timestamp field
FieldPayload(e) == Tail(e.payload)

RECURSIVE ExpectedPayload(_, _)
\* the fields the reference map predicts: the declared names in declaration
\* order, each with the last value recorded for it, names without a value left out
ExpectedPayload(names, m) ==
    IF names = <<>> THEN <<>>
    ELSE (IF m[names[1]] = NoneValue THEN <<>>
          ELSE << [name |-> names[1], value |-> m[names[1]]] >>)
         \o ExpectedPayload(Tail(names), m)

\* C3: a span created with a parent (contextual or explicit) stores a
\* RelatedActivityId with byte 0 equal to 1 and the parent's id in bytes 8..16,
\* a span without a parent stores byte 0 equal to 0, and its Start and Stop
\* events carry the related id exactly when the span has a parent
C3_RelatedIffParent ==
    /\ \A id \in SpanIds :
          ext[id] # NoData =>
              PresenceConsistent(ext[id].related_activity_id, reg[id].parent)
    /\ \A i \in 1..Len(events) :
          ~(events[i].op = "Info") =>
              (events[i].attach_related <=> reg[events[i].span].parent # 0)

\* C4: every Info event written inside a span carries, on every backend, the
\* ActivityId stored for that span at creation
C4_InfoCarriesSpanActivityId ==
    \A i \in 1..Len(events) :
        (events[i].op = "Info" /\ events[i].span # 0) =>
            events[i].activity_id = ext[events[i].span].activity_id

\* C5: entering a span the layer holds data for writes exactly one Start event
\* and exiting it exactly one Stop event, both with the ActivityId stored for
\* the span; in the log the Start and Stop events of a span alternate, the
\* last one being a Start exactly while the span is entered; and the fields of
\* the Stop event are the values last recorded for each declared name
C5_ScenarioA ==
    /\ [](backend # "noop" =>
            \A id \in SpanIds :
                LET life == SpanLifecycle(id)
                IN /\ \A k \in 1..Len(life) :
                         /\ IF k % 2 = 1 THEN IsStart(life[k]) ELSE IsStop(life[k])
                         /\ life[k].activity_id = ext[id].activity_id
                   /\ reg[id].enabled => (Len(life) % 2 = 1 <=> OnStack(id)))
    /\ [][backend # "noop" =>
            \A id \in SpanIds :
                /\ (ext[id] # NoData /\ stack' = Append(stack, id)) =>
                      /\ Len(events') = Len(events) + 1
                      /\ IsStart(Last(events'))
                      /\ Last(events').span = id
                      /\ Last(events').activity_id = ext[id].activity_id
                /\ (ext[id] # NoData /\ stack # <<>> /\ Last(stack) = id
                        /\ stack' = Front(stack)) =>
                      /\ Len(events') = Len(events) + 1
                      /\ IsStop(Last(events'))
                      /\ Last(events').span = id
                      /\ Last(events').activity_id = ext[id].activity_id
                      /\ FieldPayload(Last(events')) =
                            ExpectedPayload(Metadata(reg[id].cs).fields, recorded[id])
         ]_vars

\* C5's case: a span was entered, had field1 and field2 recorded and was
\* exited; its Start shows the creation values, its Stop the recorded ones
C5_Witness ==
    \E id \in SpanIds :
        LET life == SpanLifecycle(id)
        IN /\ Len(life) = 2
           /\ ~OnStack(id)
           /\ \E k \in 1..Len(life[1].payload) :
                 /\ life[1].payload[k].name = "field1"
                 /\ life[1].payload[k].value.v = "0"
           /\ \E k \in 1..Len(life[2].payload) :
                 /\ life[2].payload[k].name = "field1"
                 /\ life[2].payload[k].value.v = "12345"
           /\ \E k \in 1..Len(life[2].payload) :
                 /\ life[2].payload[k].name = "field2"
                 /\ life[2].payload[k].value.v = "9876f64"

\* C8: an event written with no enclosing span (current_span = 0) has ActivityId
\* byte 0 and RelatedActivityId byte 0 equal to 0, and neither id is attached
C8_ScenarioB ==
    \A i \in 1..Len(events) :
        (events[i].op = "Info" /\ events[i].span = 0) =>
            /\ events[i].activity_id[1] = 0
            /\ events[i].related_activity_id[1] = 0
            /\ ~events[i].attach_activity
            /\ ~events[i].attach_related

\* C8's case: a standalone event was written while no span was entered
C8_Witness ==
    /\ stack = <<>>
    /\ \E i \in 1..Len(events) : events[i].op = "Info" /\ events[i].span = 0

\* C9 as stated: on the etw backend every written event has the activity GUID
\* attached, and the related GUID exactly when its presence byte is non-zero
C9_ActivityAlwaysAttached ==
    backend = "etw" =>
        \A i \in 1..Len(events) :
            /\ events[i].attach_activity
            /\ events[i].attach_related <=> events[i].related_activity_id[1] # 0

\* C9 amended: on the etw backend each GUID is attached exactly when its
\* presence byte is non-zero; the activity GUID is attached to every Start and
\* Stop event, and to an Info event exactly when it is written inside a span
C9_AttachedIffPresent ==
    backend = "etw" =>
        \A i \in 1..Len(events) :
            /\ events[i].attach_activity <=> events[i].activity_id[1] # 0
            /\ events[i].attach_related <=> events[i].related_activity_id[1] # 0
            /\ ~(events[i].op = "Info") => events[i].attach_activity
            /\ events[i].op = "Info" => (events[i].attach_activity <=> events[i].span # 0)

\* C9's case: the etw backend wrote an Info event inside a span whose parent the
\* layer sees (both GUIDs attached) after a Start event (activity GUID attached)
C9_Witness ==
    /\ backend = "etw"
    /\ \E i, j \in 1..Len(events) :
          /\ i < j
          /\ IsStart(events[i]) /\ events[i].attach_activity
          /\ events[j].op = "Info"
          /\ events[j].attach_activity /\ events[j].attach_related

\* the enabled check of the etw provider for a callsite, under the session
EnabledFor(cs) ==
    /\ map_level(Metadata(cs).level) <= session.level
    /\ (Keyword(cs, DefaultKeyword) = 0
          \/ BitAnd(Keyword(cs, DefaultKeyword), session.any) # 0)

\* C10: on the backend with an enable callback (etw) callsite_enabled answers
\* always when the provider is enabled for the callsite's level and keyword and
\* never otherwise; on user_events and noop it answers sometimes
C10_InterestClassification ==
    \A cs \in Callsites :
        interest[cs] # "unset" =>
            IF backend = "etw"
            THEN interest[cs] = (IF EnabledFor(cs) THEN "always" ELSE "never")
            ELSE interest[cs] = "sometimes"

\* C10's case: on etw one registered callsite is enabled and another is not
C10_Witness ==
    /\ backend = "etw"
    /\ \E a, b \in Callsites : interest[a] = "always" /\ interest[b] = "never"

\* C11: on etw, when the controller takes the provider from disabled to enabled
\* for (INFO, keyword 1), the callback rebuilds the interest cache: every
\* registered INFO callsite of keyword 1 goes from never to always,
\* enabled(INFO, 1) from false to true, and the provider stays registered
\* exactly once, no layer being built in between
C11_ScenarioC ==
    [][(/\ backend = "etw"
        /\ ~(4 <= session.level /\ BitAnd(1, session.any) # 0)
        /\ 4 <= session'.level /\ BitAnd(1, session'.any) # 0) =>
          /\ ~EtwEnabled(session, map_level("INFO"), 1)
          /\ EtwEnabled(session', map_level("INFO"), 1)
          /\ \A cs \in Callsites :
                (/\ interest[cs] # "unset"
                 /\ Metadata(cs).level = "INFO"
                 /\ Keyword(cs, DefaultKeyword) = 1) =>
                    interest[cs] = "never" /\ interest'[cs] = "always"
          /\ native_registrations[LayerName] = 1
          /\ native_registrations' = native_registrations
          /\ built' = built
     ]_vars

\* C11's case: on etw a span was created while its callsite was disabled, then
\* the controller enabled (INFO, 1) and the callsite's interest is always
C11_Witness ==
    /\ backend = "etw"
    /\ changes = 1
    /\ session = [level |-> 4, any |-> 1]
    /\ \E id \in SpanIds :
          /\ reg[id] # NoSpan
          /\ ~reg[id].enabled
          /\ interest[reg[id].cs] = "always"

\* the callsite an event of the log was written for
CallsiteOf(e) == CHOOSE cs \in Callsites : Metadata(cs).name = e.name

C25_PreRegistered ==
    /\ [](backend = "user_events" =>
            \A l \in {"ERROR", "WARN", "INFO", "DEBUG", "TRACE"} :
                /\ <<map_level(l), DefaultKeyword>> \in eventSets
                /\ \A cs \in DOMAIN EVENT_METADATA :
                      <<map_level(l), EVENT_METADATA[cs].kw>> \in eventSets)
    /\ [][backend = "user_events" =>
            /\ eventSets' = eventSets
            /\ events' # events =>
                  <<Last(events').level, Last(events').keyword>> \in eventSets
         ]_vars

\* C25's case: on the kernel tracepoint backend a span's Start and an event of
\* a callsite with its own keyword were written
C25_Witness ==
    /\ backend = "user_events"
    /\ \E i, j \in 1..Len(events) :
          /\ events[i].op = "ActivityStart" /\ events[i].keyword = DefaultKeyword
          /\ events[j].op = "Info" /\ events[j].keyword = 5

-----------------------------------------------------------------------------
(* SpecEnabled: the enabled check of the kernel tracepoint provider,        *)
(* native/user_events.rs 59-83, 149-157                                     *)

\* the levels and keywords the filter asks about
CheckLevels == {map_level("ERROR"), map_level("INFO")}
CheckKeywords == {DefaultKeyword, 2, 4}

EnabledInit ==
    /\ backend = "user_events"
    /\ seed = Zeroes16
    /\ session \in SessionStates
    /\ changes = 0
    /\ eventSets = UserEventsNewSets(DefaultKeyword)
    /\ interest = [cs \in Callsites |-> "unset"]
    /\ reg = [id \in SpanIds |-> NoSpan]
    /\ ext = [id \in SpanIds |-> NoData]
    /\ recorded = [id \in SpanIds |-> NoRecorded]
    /\ stack = <<>>
    /\ events = <<>>
    /\ clock = 1
    /\ checked = NoCheck
    /\ EncIdle
    /\ TargetsIdle
    /\ ExtraIdle
    /\ TableIdle
    /\ IdsIdle
    /\ BuildIdle

\* Provider::enabled(level, keyword): find_set under the read lock
EnabledCall(level, keyword) ==
    /\ checked' = [level |-> level, keyword |-> keyword,
                   result |-> UserEventsEnabled(eventSets, session, level, keyword)]
    /\ UNCHANGED <<tableVars, idVars, buildVars, backend, seed, layerVars, encVars, targetVars, extraVars>>

\* register_set(level, keyword), as span_start, span_stop and write_record call
\* it for a set find_set does not find
RegisterSet(level, keyword) ==
    /\ <<level, keyword>> \notin eventSets
    /\ eventSets' = eventSets \cup {<<level, keyword>>}
    /\ UNCHANGED <<session, changes, interest, reg, ext, recorded, stack, events, clock>>
    /\ UNCHANGED <<tableVars, idVars, buildVars, backend, seed, auxVars>>

\* a consumer attaches to or detaches from the provider's tracepoints
TracepointChange(sess) ==
    /\ sess # session
    /\ session' = sess
    /\ UNCHANGED <<changes, eventSets, interest, reg, ext, recorded, stack, events, clock>>
    /\ UNCHANGED <<tableVars, idVars, buildVars, backend, seed, auxVars>>

EnabledNext ==
    \/ \E level \in CheckLevels, keyword \in CheckKeywords : EnabledCall(level, keyword)
    \/ \E level \in CheckLevels, keyword \in CheckKeywords : RegisterSet(level, keyword)
    \/ \E sess \in SessionStates : TracepointChange(sess)

SpecEnabled == EnabledInit /\ [][EnabledNext]_vars

\* C12: enabled(level, keyword) of the kernel tracepoint provider answers false
\* when no event set is registered for the pair and the set's live state
\* otherwise, and the call registers no set and changes no provider state
C12_EnabledCheck ==
    [][checked' # checked =>
          /\ eventSets' = eventSets
          /\ session' = session
          /\ <<checked'.level, checked'.keyword>> \notin eventSets => ~checked'.result
          /\ <<checked'.level, checked'.keyword>> \in eventSets =>
                (checked'.result <=>
                    /\ checked'.level <= session.level
                    /\ BitAnd(checked'.keyword, session.any) # 0)
     ]_vars

\* C12's case: the check answered false for a pair without an event set although
\* the consumer enables that level and keyword
C12_Witness ==
    /\ checked # NoCheck
    /\ ~checked.result
    /\ <<checked.level, checked.keyword>> \notin eventSets
    /\ checked.level <= session.level
    /\ BitAnd(checked.keyword, session.any) # 0

\* the field names of a table, by slot position
SlotNames(f) == [i \in 1..Len(f) |-> f[i].field]

\* C15: once on_new_span has allocated a span's table, its slots carry the names
\* the callsite declares, position by position, and no on_record, on_enter or
\* on_exit (or any other step) changes the number of slots or a slot's name
C15_StructureImmutable ==
    /\ [](\A id \in SpanIds :
            ext[id] # NoData => SlotNames(ext[id].fields) = Metadata(reg[id].cs).fields)
    /\ [][\A id \in SpanIds :
            ext[id] # NoData =>
                /\ ext'[id] # NoData
                /\ SlotNames(ext'[id].fields) = SlotNames(ext[id].fields)]_vars

\* C15's case: a span with three declared fields was recorded into twice after
\* its creation, entered and exited
C15_Witness ==
    \E id \in SpanIds :
        /\ ext[id] # NoData
        /\ Len(ext[id].fields) = 3
        /\ \E i \in 1..3 : ext[id].fields[i].field = "field1" /\ ext[id].fields[i].value.v = "12345"
        /\ \E i \in 1..3 : ext[id].fields[i].field = "field2" /\ ext[id].fields[i].value.v = "9876f64"
        /\ Len(SpanLifecycle(id)) = 2
        /\ ~OnStack(id)

-----------------------------------------------------------------------------
(* The thread-local EventBuilder (EBW) and the encoders step by step:       *)
(* native/etw.rs 155-327, native/user_events.rs 164-359,                    *)
(* native/common_schema/etw_cs.rs, native/common_schema/user_events_cs.rs   *)

\* the mutant of eb_reset: the fields and the opcode of the last event are kept
eb_reset_keeping(b, name, tag) == [b EXCEPT !.name = name, !.tag = tag]

\* EventBuilder::reset(name, .., event_tag): a new event with no field and the
\* default opcode
eb_reset(b, name, tag) == [name |-> name, opcode |-> "Info", tag |-> tag, fields |-> <<>>]

\* EventBuilder::opcode(op)
eb_opcode(b, op) == [b EXCEPT !.opcode = op]

\* EventBuilder::add_value / add_str / add_systemtime: one field appended
eb_add_value(b, name, value) ==
    [b EXCEPT !.fields = Append(@, [name |-> name, value |-> value])]

\* EventBuilder::add_struct(name, field_count, 0): the header of a struct
eb_add_struct(b, name, field_count) ==
    eb_add_value(b, name, [t |-> "struct", v |-> ToString(field_count)])

\* EventBuilder::write: what is handed to the OS; an error of the OS is dropped
\* by `let _ =` and nothing is emitted
eb_write(b, ok) ==
    IF ok THEN [written |-> TRUE, name |-> b.name, opcode |-> b.opcode, tag |-> b.tag,
                fields |-> b.fields]
    ELSE NoWrite

\* the outcome of an encoder call: the builder it leaves, what it wrote and
\* whether it unwound
Outcome(b, w, p) == [eb |-> b, wire |-> w, panicked |-> p]

\* for f in fields: the slots as the FieldAndValue pairs handed to add_field_value
SlotValues(f) == [i \in 1..Len(f) |-> [name |-> f[i].field, value |-> f[i].value]]

\* event.record(&mut visitor): the visitor is called for the fields of the event
\* that have a value
EventValues(f) == SelectSeq(SlotValues(f), LAMBDA fv : fv.value # NoneValue)

\* SystemTime::duration_since(UNIX_EPOCH) is an Err for a time before the epoch
BeforeEpoch(ts) == ts < 0

\* the value of the time field of the native encoders
TimeValue(ts) == [t |-> "time", v |-> ToString(ts)]

\* the operation codes of the two native encoders
StartOpcode(b) == IF b = "etw" THEN "Start" ELSE "ActivityStart"
StopOpcode(b) == IF b = "etw" THEN "Stop" ELSE "ActivityStop"

\* the body of a native encoder call after reset and opcode: the time field
\* (user_events unwraps duration_since), the fields, the write
NativeBody(b, e, time_name, ts, fvs, ok) ==
    IF b = "user_events" /\ BeforeEpoch(ts) THEN Outcome(e, NoWrite, TRUE)
    ELSE LET e2 == eb_add_value(e, time_name, TimeValue(ts))
             e3 == [e2 EXCEPT !.fields = AddValues(@, fvs)]
         IN Outcome(e3, eb_write(e3, ok), FALSE)

\* Provider::span_start of native/etw.rs and native/user_events.rs
NativeSpanStart(b, e, c) ==
    NativeBody(b, eb_opcode(eb_reset(e, c.name, c.tag), StartOpcode(b)),
               "start time", c.ts, SlotValues(c.fields), c.ok)

\* Provider::span_stop of native/etw.rs and native/user_events.rs
NativeSpanStop(b, e, c) ==
    NativeBody(b, eb_opcode(eb_reset(e, c.name, c.tag), StopOpcode(b)),
               "stop time", c.ts, SlotValues(c.fields), c.ok)

\* Provider::write_record of native/etw.rs and native/user_events.rs; etw resets
\* the builder with tag 0
NativeWriteRecord(b, e, c) ==
    NativeBody(b, eb_opcode(eb_reset(e, c.name, IF b = "etw" THEN 0 ELSE c.tag), "Info"),
               "time", c.ts, EventValues(c.fields), c.ok)

\* the mutant of cs_field_name: no field is renamed
cs_field_name_unchanged(field_name) == field_name

\* CommonSchemaPartCBuilder::add_field_value: `message` goes out as `Body`
cs_field_name(field_name) == IF field_name = "message" THEN "Body" ELSE field_name

\* assert!(matches!(fv.value, ValueTypes::v_str(_))) for a field named `message`
cs_assert_holds(fv) == fv.name = "message" => fv.value.t = "v_str"

RECURSIVE cs_add_fields(_, _)
\* the PartC loop: add_field_value per pair, unwinding at the first failed assert
cs_add_fields(e, fvs) ==
    IF fvs = <<>> THEN [eb |-> e, panicked |-> FALSE]
    ELSE IF ~cs_assert_holds(fvs[1]) THEN [eb |-> e, panicked |-> TRUE]
    ELSE cs_add_fields(
            [e EXCEPT !.fields = add_field_value(@, [name |-> cs_field_name(fvs[1].name),
                                                     value |-> fvs[1].value])],
            Tail(fvs))

HexDigits == <<"0", "1", "2", "3", "4", "5", "6", "7", "8", "9", "a", "b", "c", "d", "e", "f">>

RECURSIVE LowerHex(_)
\* the lower-case hexadecimal digits of n, most significant first
LowerHex(n) ==
    IF n < 16 THEN HexDigits[n + 1]
    ELSE LowerHex(n \div 16) \o HexDigits[(n % 16) + 1]

RECURSIVE PadLeft(_, _)
\* str right-aligned in a field of the given width, padded with spaces
PadLeft(str, width) == IF Len(str) >= width THEN str ELSE PadLeft(" " \o str, width)

\* write!(cur, "{:16x}", id) into the 16-byte buffer
Hex16(id) == [t |-> "v_str", v |-> PadLeft(LowerHex(id), 16)]

\* chrono::DateTime::<Utc>::from(t).to_rfc3339(): defined before the epoch as well
Rfc3339(ts) == [t |-> "v_str", v |-> "rfc3339:" \o ToString(ts)]

StrValue(str) == [t |-> "v_str", v |-> str]

\* the ext_dt struct of PartA
cs_ext_dt(e, span_id) ==
    LET e1 == eb_add_struct(e, "ext_dt", 2)
        e2 == eb_add_value(e1, "traceId", StrValue(""))
    IN eb_add_value(e2, "spanId", Hex16(span_id))

\* PartC and the write, common to span_stop and write_record
cs_part_c(e, field_count, fvs, ok) ==
    LET e1 == eb_add_struct(e, "PartC", field_count)
        r == cs_add_fields(e1, fvs)
    IN IF r.panicked THEN Outcome(r.eb, NoWrite, TRUE)
       ELSE Outcome(r.eb, eb_write(r.eb, ok), FALSE)

\* CommonSchemaProvider::span_start: an empty body
CsSpanStart(b, e, c) == Outcome(e, NoWrite, FALSE)

\* CommonSchemaProvider::span_stop of etw_cs.rs and user_events_cs.rs
CsSpanStop(b, e, c) ==
    LET e1 == eb_opcode(eb_reset(e, c.name, c.tag), "Info")
        e2 == eb_add_value(e1, "__csver__", [t |-> "v_i64", v |-> "1025"])
        e3 == eb_add_struct(e2, "PartA", 2)
        e4 == eb_add_value(e3, "time", Rfc3339(c.ts))
        e5 == cs_ext_dt(e4, c.span)
        e6 == eb_add_struct(e5, "PartB", 3 + (IF c.parent # 0 THEN 1 ELSE 0))
        e7 == eb_add_value(e6, "_typeName", StrValue("Span"))
        e8 == IF c.parent # 0 THEN eb_add_value(e7, "parentId", Hex16(c.parent)) ELSE e7
        e9 == eb_add_value(e8, "name", StrValue(c.name))
        e10 == eb_add_value(e9, "startTime", Rfc3339(c.start))
    IN cs_part_c(e10, Len(c.fields), SlotValues(c.fields), c.ok)

\* CommonSchemaProvider::write_record: etw_cs.rs declares two PartA fields and
\* resets with tag 0, user_events_cs.rs counts ext_dt only when there is a span
CsWriteRecord(b, e, c) ==
    LET e1 == eb_opcode(eb_reset(e, c.name, IF b = "etw" THEN 0 ELSE c.tag), "Info")
        e2 == eb_add_value(e1, "__csver__", [t |-> "v_i64", v |-> "1025"])
        e3 == eb_add_struct(e2, "PartA",
                            IF b = "etw" THEN 2 ELSE 1 + (IF c.span # 0 THEN 1 ELSE 0))
        e4 == eb_add_value(e3, "time", Rfc3339(c.ts))
        e5 == IF c.span # 0 THEN cs_ext_dt(e4, c.span) ELSE e4
        e6 == eb_add_struct(e5, "PartB", 3)
        e7 == eb_add_value(e6, "_typeName", StrValue("Log"))
        e8 == eb_add_value(e7, "name", StrValue(c.name))
        e9 == eb_add_value(e8, "eventTime", Rfc3339(c.ts))
    IN cs_part_c(e9, Len(c.fields), EventValues(c.fields), c.ok)

\* the encoder call of the layer's provider type
Encode(b, m, e, c) ==
    CASE c.fn = "span_start" -> IF m = "native" THEN NativeSpanStart(b, e, c) ELSE CsSpanStart(b, e, c)
      [] c.fn = "span_stop" -> IF m = "native" THEN NativeSpanStop(b, e, c) ELSE CsSpanStop(b, e, c)
      [] c.fn = "write_record" -> IF m = "native" THEN NativeWriteRecord(b, e, c) ELSE CsWriteRecord(b, e, c)

-----------------------------------------------------------------------------
(* SpecEncode: one thread calls the encoders of one provider, in any order,  *)
(* as on_enter, on_exit and on_event do (layer.rs 455-483, 565-643), for a   *)
(* span and an event that carry the same fields                             *)

\* the field names of the encoded spans and events
EncNames == {"field1", "message"}

\* the values a slot holds when the encoder runs
EncValues == {NoneValue, [t |-> "v_str", v |-> "9876f64"], [t |-> "v_u64", v |-> "12345"]}

\* the field tables handed to the encoders: (field, value) of each slot, the
\* names distinct, in declaration order
EncTables ==
    UNION { { f \in [1..k -> [field : EncNames, value : EncValues]] :
                \A i, j \in 1..k : i # j => f[i].field # f[j].field }
            : k \in 0..Cardinality(EncNames) }

\* SystemTime::now() of the handler: one second before the epoch, or after it
EncTimes == {-1, 2}

\* the calls on_enter and on_exit make for a span (id 2, child of span 1 or a
\* root) with the table f; ok is whether the OS accepts the write
SpanCalls(fn, f) ==
    { [fn |-> fn, name |-> "my_span", tag |-> 0, ts |-> ts, start |-> 1, span |-> 2,
       parent |-> parent, fields |-> f, ok |-> ok]
      : ts \in EncTimes, parent \in {0, 1}, ok \in BOOLEAN }

\* the calls on_event makes for an event (inside span 2 or outside any span)
\* whose field set is f, a None value standing for a field without a value
EventCalls(f) ==
    { [fn |-> "write_record", name |-> "event", tag |-> 0, ts |-> ts, start |-> 0,
       span |-> span, parent |-> 0, fields |-> f, ok |-> ok]
      : ts \in EncTimes, span \in {0, 2}, ok \in BOOLEAN }

EncodeInit ==
    /\ backend \in {"etw", "user_events"}
    /\ mode \in {"native", "common_schema"}
    /\ seed = Zeroes16
    /\ slots \in EncTables
    /\ eb = NewBuilder
    /\ wire = NoWrite
    /\ panicked = FALSE
    /\ unwound = FALSE
    /\ encoded = NoCall
    /\ checked = NoCheck
    /\ TargetsIdle
    /\ ExtraIdle
    /\ LayerIdle
    /\ TableIdle
    /\ IdsIdle
    /\ BuildIdle

\* one encoder call on the thread: EBW.with(|eb| ..)
EncodeCall(c) ==
    LET r == Encode(backend, mode, eb, c)
    IN /\ eb' = r.eb
       /\ wire' = r.wire
       /\ panicked' = r.panicked
       /\ unwound' = (unwound \/ panicked)
       /\ encoded' = c
       /\ UNCHANGED <<mode, slots, checked, targetVars, extraVars>>
       /\ UNCHANGED <<tableVars, idVars, buildVars, backend, seed, layerVars>>

EncodeSpanStart == \E c \in SpanCalls("span_start", slots) : EncodeCall(c)
EncodeSpanStop == \E c \in SpanCalls("span_stop", slots) : EncodeCall(c)
EncodeWriteRecord == \E c \in EventCalls(slots) : EncodeCall(c)

EncodeNext ==
    \/ EncodeSpanStart
    \/ EncodeSpanStop
    \/ EncodeWriteRecord

SpecEncode == EncodeInit /\ [][EncodeNext]_vars

\* C13: no encoder call made by on_enter, on_exit or on_event unwinds into the
\* application, whatever the field values, the timestamp and the result of the
\* native write: a failure only leaves the event unwritten
C13_NoPanic == ~panicked

\* the position of the first field of the event with the given name, 0 if none
FirstNamed(fs, name) ==
    IF \E k \in 1..Len(fs) : fs[k].name = name
    THEN CHOOSE k \in 1..Len(fs) : fs[k].name = name /\ \A j \in 1..(k - 1) : fs[j].name # name
    ELSE 0

\* the fields an event carries for the slots: what follows the time field of a
\* native event, what follows the PartC header of a Common Schema event
UserFields(m, w) ==
    IF m = "native" THEN Tail(w.fields)
    ELSE SubSeq(w.fields, FirstNamed(w.fields, "PartC") + 1, Len(w.fields))

\* how many of the fields carry the name
CountNamed(fs, name) == Cardinality({ k \in 1..Len(fs) : fs[k].name = name })

\* the name a slot is written under, as the consumer reads it
WireName(m, field) == IF m = "common_schema" /\ field = "message" THEN "Body" ELSE field

\* C16: in every Start or Stop event an encoder writes, a slot whose value is None
\* has no field and every other slot has exactly one, and no written field
\* carries the None value
C16_NoneNeverWritten ==
    (wire.written /\ encoded.fn \in {"span_start", "span_stop"}) =>
        /\ \A i \in 1..Len(encoded.fields) :
              CountNamed(UserFields(mode, wire), WireName(mode, encoded.fields[i].field))
                = IF encoded.fields[i].value = NoneValue THEN 0 ELSE 1
        /\ \A k \in 1..Len(wire.fields) : wire.fields[k].value # NoneValue

\* C16's case: a Stop event was written for a span that has a slot still None
\* and a slot with a value
C16_Witness ==
    /\ wire.written
    /\ encoded.fn = "span_stop"
    /\ \E i \in 1..Len(encoded.fields) : encoded.fields[i].value = NoneValue
    /\ \E i \in 1..Len(encoded.fields) : encoded.fields[i].value # NoneValue

\* the name of the time field and the operation code of a native event
NativeTimeName(fn) ==
    CASE fn = "span_start" -> "start time"
      [] fn = "span_stop" -> "stop time"
      [] fn = "write_record" -> "time"

NativeOpcode(b, fn) ==
    CASE fn = "span_start" -> StartOpcode(b)
      [] fn = "span_stop" -> StopOpcode(b)
      [] fn = "write_record" -> "Info"

\* the slots of the call that hold a value, in declaration order
OwnFields(c) == SelectSeq(SlotValues(c.fields), LAMBDA fv : fv.value # NoneValue)

\* C17: whatever the thread encoded before, completely or not, an event written
\* by a native encoder has the name and the operation code of its own call and
\* a payload made of its own time field followed by its own non-None fields in
\* declaration order; an event written by a Common Schema encoder is the one the
\* same call writes with a new builder
C17_BuilderReset ==
    wire.written =>
        /\ wire.name = encoded.name
        /\ wire = Encode(backend, mode, NewBuilder, encoded).wire
        /\ mode = "native" =>
              /\ wire.opcode = NativeOpcode(backend, encoded.fn)
              /\ wire.fields =
                    <<[name |-> NativeTimeName(encoded.fn), value |-> TimeValue(encoded.ts)]>>
                        \o OwnFields(encoded)

\* C17's case: an event with two fields was written on a thread on which an
\* earlier encode unwound before its write
C17_Witness ==
    /\ wire.written
    /\ unwound
    /\ Len(OwnFields(encoded)) = 2
    /\ OwnFields(encoded)[1].name = "message"

\* C18: in every event a Common Schema encoder writes, PartC holds the call's
\* own fields in order, a string `message` under the name Body with its value
\* and every other field under its own name with its value
C18_MessageAsBody ==
    (mode = "common_schema" /\ wire.written) =>
        LET own == OwnFields(encoded)
            partc == UserFields(mode, wire)
        IN /\ Len(partc) = Len(own)
           /\ \A i \in 1..Len(own) :
                 /\ partc[i].value = own[i].value
                 /\ own[i].name = "message" => partc[i].name = "Body"
                 /\ own[i].name # "message" => partc[i].name = own[i].name

\* C18's case: a Common Schema event was written with a string `message` and
\* another field
C18_Witness ==
    /\ mode = "common_schema"
    /\ wire.written
    /\ \E i \in 1..Len(encoded.fields) :
          encoded.fields[i].field = "message" /\ encoded.fields[i].value.t = "v_str"
    /\ \E i \in 1..Len(encoded.fields) :
          encoded.fields[i].field = "field1" /\ encoded.fields[i].value # NoneValue
    /\ CountNamed(wire.fields, "Body") = 1

\* the field count a struct header of the event declares
DeclaredCount(fs, name) == fs[FirstNamed(fs, name)].value.v

\* the number of fields the encoder appended directly inside the struct: PartA
\* runs up to the PartB header and holds ext_dt as one field, ext_dt runs up to
\* the PartB header, PartB up to the PartC header, PartC to the end of the event
AppendedCount(fs, name) ==
    LET a == FirstNamed(fs, "PartA")
        x == FirstNamed(fs, "ext_dt")
        b == FirstNamed(fs, "PartB")
        c == FirstNamed(fs, "PartC")
    IN CASE name = "PartA" -> (b - a - 1) - (IF x # 0 THEN b - x - 1 ELSE 0)
         [] name = "ext_dt" -> b - x - 1
         [] name = "PartB" -> c - b - 1
         [] name = "PartC" -> Len(fs) - c

\* C21: in every event a Common Schema encoder writes, the field count declared
\* by each of the PartA, ext_dt, PartB and PartC headers is the number of fields
\* appended directly inside that struct
C21_StructCounts ==
    (mode = "common_schema" /\ wire.written) =>
        \A name \in {"PartA", "ext_dt", "PartB", "PartC"} :
            FirstNamed(wire.fields, name) # 0 =>
                DeclaredCount(wire.fields, name) = ToString(AppendedCount(wire.fields, name))

\* the fields of PartB of a Common Schema event
PartB(fs) == SubSeq(fs, FirstNamed(fs, "PartB") + 1, FirstNamed(fs, "PartC") - 1)

\* the fields PartB is to hold for the call: the type name, the parent's id in
\* hexadecimal when the span has a parent, the name and the start or event time
ExpectedPartB(c) ==
    IF c.fn = "span_stop"
    THEN <<[name |-> "_typeName", value |-> StrValue("Span")]>>
         \o (IF c.parent # 0 THEN <<[name |-> "parentId", value |-> Hex16(c.parent)]>> ELSE <<>>)
         \o <<[name |-> "name", value |-> StrValue(c.name)],
              [name |-> "startTime", value |-> Rfc3339(c.start)]>>
    ELSE <<[name |-> "_typeName", value |-> StrValue("Log")],
           [name |-> "name", value |-> StrValue(c.name)],
           [name |-> "eventTime", value |-> Rfc3339(c.ts)]>>

\* C23: in Common Schema mode the encoder writes nothing when a span is entered,
\* one record with PartB _typeName Span, the name, the start time of the enter
\* and a parentId exactly for a span with a parent when the span is exited, and
\* one record with _typeName Log for an event (the OS accepting the write)
C23_CommonSchemaRecords ==
    (mode = "common_schema" /\ encoded # NoCall) =>
        /\ encoded.fn = "span_start" => ~wire.written
        /\ (encoded.fn \in {"span_stop", "write_record"} /\ encoded.ok) =>
              /\ wire.written
              /\ PartB(wire.fields) = ExpectedPartB(encoded)

-----------------------------------------------------------------------------
(* SpecTargets: a registry with two layers, each built by build or by        *)
(* build_with_target, and the events dispatched to it (main.rs 10-43)        *)

\* the targets of the model, as their characters: the two provider names and
\* the target of main.rs 11-12 and 43, and the module path an event has when
\* it names no target
TargetTest == <<"t", "e", "s", "t">>
TargetTest2 == <<"t", "e", "s", "t", "2">>
TargetGeneva == <<"g", "e", "n", "e", "v", "a">>
TargetMain == <<"m", "a", "i", "n">>
GroupName == <<"g", "r", "p", "1">>

EventTargets == {TargetTest, TargetTest2, TargetGeneva, TargetMain, GroupName}

\* str::starts_with
starts_with(str, prefix) ==
    Len(prefix) <= Len(str) /\ SubSeq(str, 1, Len(prefix)) = prefix

\* Targets::with_target(target, LevelFilter::TRACE): one more directive
with_target(targets, target) == targets \cup {target}

\* the mutant of build_target_filter: the target is added also when it is empty
build_target_filter_unguarded(provider_name, provider_group, target) ==
    LET own == with_target({}, provider_name)
        grouped == IF provider_group.kind = "Linux"
                   THEN with_target(own, provider_group.name) ELSE own
    IN with_target(grouped, target)

\* build_target_filter: the provider's name, the Linux group name, the target
\* if it is not empty
build_target_filter(provider_name, provider_group, target) ==
    LET own == with_target({}, provider_name)
        grouped == IF provider_group.kind = "Linux"
                   THEN with_target(own, provider_group.name) ELSE own
    IN IF target # <<>> THEN with_target(grouped, target) ELSE grouped

\* Targets as a filter: a directive whose target is a prefix of the event's
\* target enables it (every directive is at TRACE)
TargetsEnabled(targets, target) == \E d \in targets : starts_with(target, d)

\* the layer build (fn = "build") or build_with_target(target) returns: the
\* layer filtered by its EtwFilter, and by the Targets as well in the second case
BuiltLayer(fn, provider_name, provider_group, target) ==
    [fn |-> fn, provider_name |-> provider_name, provider_group |-> provider_group,
     target |-> target,
     targets |-> IF fn = "build_with_target"
                 THEN build_target_filter(provider_name, provider_group, target)
                 ELSE {}]

\* the layers a program can build on the platform of the backend
BuildableLayers(b) ==
    { BuiltLayer(c.fn, name, group, c.target) :
        c \in { [fn |-> "build", target |-> <<>>],
                [fn |-> "build_with_target", target |-> <<>>],
                [fn |-> "build_with_target", target |-> TargetGeneva] },
        name \in {TargetTest, TargetTest2},
        group \in { g \in ProviderGroups(b) :
                      g.kind = "Unset" \/ (g.kind = "Linux" /\ g.name = GroupName) } }

\* Filtered::enabled of one layer for an event of callsite cs with the target:
\* filter, or filter.and(targets)
LayerEmits(b, sess, layer, cs, target) ==
    /\ FilterEnabled(b, UserEventsNewSets(DefaultKeyword), sess, cs)
    /\ layer.fn = "build_with_target" => TargetsEnabled(layer.targets, target)

TargetsInit ==
    /\ backend \in Backends
    /\ seed = Zeroes16
    /\ session \in SessionStates
    /\ changes = 0
    /\ eventSets = IF backend = "user_events" THEN UserEventsNewSets(DefaultKeyword) ELSE {}
    /\ interest = [cs \in Callsites |-> "unset"]
    /\ reg = [id \in SpanIds |-> NoSpan]
    /\ ext = [id \in SpanIds |-> NoData]
    /\ recorded = [id \in SpanIds |-> NoRecorded]
    /\ stack = <<>>
    /\ events = <<>>
    /\ clock = 1
    /\ subscriber \in [1..2 -> BuildableLayers(backend)]
    /\ dispatched = NoDispatch
    /\ checked = NoCheck
    /\ EncIdle
    /\ ExtraIdle
    /\ TableIdle
    /\ IdsIdle
    /\ BuildIdle

\* event!(target: .., ..) or span!(target: .., ..): the registry offers it to
\* every layer, and the layers whose filter enables it emit it
Dispatch(cs, target) ==
    /\ dispatched' = [cs |-> cs, target |-> target,
                      emitted |-> { i \in 1..Len(subscriber) :
                                      LayerEmits(backend, session, subscriber[i], cs, target) }]
    /\ UNCHANGED <<subscriber, checked, encVars, extraVars>>
    /\ UNCHANGED <<tableVars, idVars, buildVars, backend, seed, layerVars>>

TargetsNext == \E cs \in Callsites, target \in EventTargets : Dispatch(cs, target)

SpecTargets == TargetsInit /\ [][TargetsNext]_vars

\* a target matches a name as a Targets directive does: the target starts with it
Matches(target, name) == starts_with(target, name)

\* the provider of a layer is enabled for the level and keyword of the callsite
EnabledForCallsite(cs) ==
    LET level == map_level(Metadata(cs).level)
        keyword == Keyword(cs, DefaultKeyword)
    IN CASE backend = "etw" -> level <= session.level /\ BitAnd(keyword, session.any) # 0
         [] backend = "user_events" -> level <= session.level /\ BitAnd(keyword, session.any) # 0
         [] backend = "noop" -> FALSE

\* C20: a layer built with build_with_target(t) emits an event or span exactly
\* when its provider is enabled for the level and keyword and its target matches
\* the provider's name, the Linux group name if one is set, or t if t is not
\* empty; a layer built with build emits exactly when its provider is enabled,
\* whatever the target
C20_TargetFanOut ==
    dispatched # NoDispatch =>
        \A i \in 1..Len(subscriber) :
            LET layer == subscriber[i]
                matched == \/ Matches(dispatched.target, layer.provider_name)
                           \/ /\ layer.provider_group.kind = "Linux"
                              /\ Matches(dispatched.target, layer.provider_group.name)
                           \/ /\ layer.target # <<>>
                              /\ Matches(dispatched.target, layer.target)
            IN /\ layer.fn = "build_with_target" =>
                    (i \in dispatched.emitted <=> (matched /\ EnabledForCallsite(dispatched.cs)))
               /\ layer.fn = "build" =>
                    (i \in dispatched.emitted <=> EnabledForCallsite(dispatched.cs))

\* C20's case, main.rs 11-12 and 43: an event with the target geneva went to the
\* layer built by build and to the layer built by build_with_target(geneva) ..
C20_Witness ==
    /\ dispatched # NoDispatch
    /\ dispatched.target = TargetGeneva
    /\ dispatched.emitted = {1, 2}
    /\ subscriber[1].fn = "build"
    /\ subscriber[1].provider_name = TargetTest
    /\ subscriber[2].fn = "build_with_target"
    /\ subscriber[2].provider_name = TargetTest2
    /\ subscriber[2].target = TargetGeneva

-----------------------------------------------------------------------------
(* SpecEnter: one span that has its EtwLayerData, entered and exited by two *)
(* threads; each handler takes its timestamp first and then works under the *)
(* extensions_mut lock of the span (layer.rs 565-643)                       *)

\* how many entries of the span a thread holds at once
MaxEntries == 2

EnterInit ==
    /\ backend = "noop"
    /\ seed = Zeroes16
    /\ entries = [t \in Threads |-> <<>>]
    /\ handler = [t \in Threads |-> NoHandler]
    /\ start_time = 0
    /\ stopped = NoStop
    /\ MetaIdle
    /\ activities = NoActivities
    /\ WideIdle
    /\ handled = NoHandled
    /\ checked = NoCheck
    /\ EncIdle
    /\ TargetsIdle
    /\ LayerIdle
    /\ TableIdle
    /\ IdsIdle
    /\ BuildIdle

\* on_enter, layer.rs 567: let timestamp = SystemTime::now()
EnterBegin(t) ==
    /\ handler[t] = NoHandler
    /\ Len(entries[t]) < MaxEntries
    /\ handler' = [handler EXCEPT ![t] = [fn |-> "on_enter", timestamp |-> clock]]
    /\ UNCHANGED <<entries, start_time, stopped>>
    /\ UNCHANGED <<tableVars, idVars, buildVars, backend, seed, layerVars>>
    /\ UNCHANGED <<checked, encVars, targetVars, metaVars, activities, wideVars, handled>>

\* on_enter, layer.rs 577-603: under the lock, span_start and
\* data.start_time = timestamp
EnterStore(t) ==
    /\ handler[t].fn = "on_enter"
    /\ start_time' = handler[t].timestamp
    /\ entries' = [entries EXCEPT ![t] = Append(@, handler[t].timestamp)]
    /\ handler' = [handler EXCEPT ![t] = NoHandler]
    /\ UNCHANGED stopped
    /\ UNCHANGED <<tableVars, idVars, buildVars, backend, seed, layerVars>>
    /\ UNCHANGED <<checked, encVars, targetVars, metaVars, activities, wideVars, handled>>

\* on_exit, layer.rs 608: let stop_timestamp = SystemTime::now(); the guard
\* dropped is the thread's innermost entry
ExitBegin(t) ==
    /\ handler[t] = NoHandler
    /\ entries[t] # <<>>
    /\ handler' = [handler EXCEPT ![t] = [fn |-> "on_exit", timestamp |-> clock]]
    /\ UNCHANGED <<entries, start_time, stopped>>
    /\ UNCHANGED <<tableVars, idVars, buildVars, backend, seed, layerVars>>
    /\ UNCHANGED <<checked, encVars, targetVars, metaVars, activities, wideVars, handled>>

\* on_exit, layer.rs 618-642: under the lock, span_stop with
\* (data.start_time, stop_timestamp)
ExitStop(t) ==
    /\ handler[t].fn = "on_exit"
    /\ stopped' = [start_time |-> start_time, stop |-> handler[t].timestamp,
                   entered |-> Last(entries[t])]
    /\ entries' = [entries EXCEPT ![t] = Front(@)]
    /\ handler' = [handler EXCEPT ![t] = NoHandler]
    /\ UNCHANGED start_time
    /\ UNCHANGED <<tableVars, idVars, buildVars, backend, seed, layerVars>>
    /\ UNCHANGED <<checked, encVars, targetVars, metaVars, activities, wideVars, handled>>

\* time passes between two reads of SystemTime::now()
Tick ==
    /\ clock < MaxClock
    /\ clock' = clock + 1
    /\ UNCHANGED <<session, changes, eventSets, interest, reg, ext, recorded, stack, events>>
    /\ UNCHANGED <<tableVars, idVars, buildVars, backend, seed, auxVars>>

EnterNext ==
    \/ \E t \in Threads : EnterBegin(t)
    \/ \E t \in Threads : EnterStore(t)
    \/ \E t \in Threads : ExitBegin(t)
    \/ \E t \in Threads : ExitStop(t)
    \/ Tick

SpecEnter == EnterInit /\ [][EnterNext]_vars

\* C22: the start time given to span_stop by an on_exit is the timestamp taken
\* by the on_enter that the exit closes, and it is not the UNIX_EPOCH default
C22_StartTimeOfMatchingEnter ==
    stopped # NoStop =>
        /\ stopped.start_time = stopped.entered
        /\ stopped.start_time # 0

-----------------------------------------------------------------------------
(* SpecMetadata: the closure of EVENT_METADATA (layer.rs 32-88) run on the  *)
(* array of metadata pointers the linker collected                          *)

\* how many pointers the section holds at most
MaxPointers == 4

\* core::ptr::null()
NullPtr == 0

\* the addresses of the EtwEventMetadata statics of the program
MetaPtrs == {1, 2, 3}

\* the arrays between _start__etw_kw and _stop__etw_kw: the pointers of the
\* etw_event! statics, duplicated or not, and nulls (native/user_events.rs 16-18)
Sections == UNION { [1..k -> MetaPtrs \cup {NullPtr}] : k \in 0..MaxPointers }

RECURSIVE InsertDescending(_, _)
InsertDescending(sorted, p) ==
    IF sorted = <<>> THEN <<p>>
    ELSE IF p >= sorted[1] THEN <<p>> \o sorted
    ELSE <<sorted[1]>> \o InsertDescending(Tail(sorted), p)

RECURSIVE SortDescending(_)
\* events_slice.sort_unstable_by(|a, b| b.cmp(a)): largest address first, nulls last
SortDescending(slice) ==
    IF slice = <<>> THEN <<>>
    ELSE InsertDescending(SortDescending(Tail(slice)), slice[1])

RECURSIVE Compact(_, _, _)
\* the inner loop (layer.rs 58-64): from next_pos on, every pointer that differs
\* from the last good one is moved behind it; positions count from 0
Compact(slice, good_pos, next_pos) ==
    IF next_pos = Len(slice) THEN [slice |-> slice, good_pos |-> good_pos]
    ELSE IF slice[good_pos + 1] # slice[next_pos + 1]
         THEN Compact([slice EXCEPT ![good_pos + 2] = slice[next_pos + 1]],
                      good_pos + 1, next_pos + 1)
         ELSE Compact(slice, good_pos, next_pos + 1)

RECURSIVE RemoveDuplicates(_, _)
\* the outer loop (layer.rs 55-68): up to the first pair of equal neighbours,
\* then the inner loop and break
RemoveDuplicates(slice, good_pos) ==
    IF good_pos = Len(slice) - 1 THEN [slice |-> slice, good_pos |-> good_pos]
    ELSE IF slice[good_pos + 1] = slice[good_pos + 2]
         THEN Compact(slice, good_pos, good_pos + 2)
         ELSE RemoveDuplicates(slice, good_pos + 1)

\* layer.rs 70-75: the positions behind good_pos are set to null
NullTail(slice, good_pos) ==
    [i \in 1..Len(slice) |-> IF i - 1 > good_pos THEN NullPtr ELSE slice[i]]

\* layer.rs 77-84: positions 0..good_pos are dereferenced and inserted, in order
Inserted(slice, good_pos) == SubSeq(slice, 1, good_pos + 1)

\* the outcomes of the closure: the map of the pointers inserted; &*null is
\* undefined behaviour, after which the process has crashed or the map holds an
\* entry read through the null pointer
MetadataOutcomes(slice) ==
    IF slice = <<>> THEN { [state |-> "built", entries |-> <<>>] }
    ELSE LET d == RemoveDuplicates(SortDescending(slice), 0)
             ins == Inserted(NullTail(d.slice, d.good_pos), d.good_pos)
         IN IF \E i \in 1..Len(ins) : ins[i] = NullPtr
            THEN { [state |-> "crashed", entries |-> <<>>],
                   [state |-> "built", entries |-> ins] }
            ELSE { [state |-> "built", entries |-> ins] }

MetadataInit ==
    /\ backend = "user_events"
    /\ seed = Zeroes16
    /\ section \in Sections
    /\ table = NoTable
    /\ EnterIdle
    /\ activities = NoActivities
    /\ WideIdle
    /\ handled = NoHandled
    /\ checked = NoCheck
    /\ EncIdle
    /\ TargetsIdle
    /\ LayerIdle
    /\ TableIdle
    /\ IdsIdle
    /\ BuildIdle

\* the first use of EVENT_METADATA forces the Lazy
ForceMetadata ==
    /\ table = NoTable
    /\ table' \in MetadataOutcomes(section)
    /\ UNCHANGED <<section, enterVars, activities, wideVars, handled, checked, encVars, targetVars>>
    /\ UNCHANGED <<tableVars, idVars, buildVars, backend, seed, layerVars>>

MetadataNext == ForceMetadata

SpecMetadata == MetadataInit /\ [][MetadataNext]_vars

\* the pointers of a sequence
PointersOf(slice) == { slice[i] : i \in 1..Len(slice) }

\* C26: whatever array of pointers the section holds, the table built from it
\* has exactly one entry per distinct non-null pointer of the array and none
\* for the null pointer, and building it dereferences no null pointer
C26_MetadataTable ==
    table # NoTable =>
        /\ table.state = "built"
        /\ PointersOf(table.entries) = PointersOf(section) \ {NullPtr}
        /\ \A i, j \in 1..Len(table.entries) :
              table.entries[i] = table.entries[j] => i = j

-----------------------------------------------------------------------------
(* SpecActivities: Activities::generate (activities.rs 19-48) applied to    *)
(* drawn span ids                                                           *)

\* the span ids given to generate; 0 as parent_span_id is "no parent"
GenerateInputs == {0, 1, 10, 255, 256, 4095, 65537, 2147483647}

\* a 16-byte buffer written by write!(cur, "{:16x}", id)
HexBuffer(id) == [zeroed |-> FALSE, text |-> PadLeft(LowerHex(id), 16)]

\* the buffer [0; 16]
ZeroBuffer == [zeroed |-> TRUE, text |-> ""]

\* [0; 16] with the little-endian bytes of the id copied into its upper half
UpperHalfId(id) == WithUpperHalf(Zeroes16, id)

\* Activities::generate(span_id, parent_span_id)
generate(span_id, parent_span) ==
    [generated |-> TRUE,
     span_id |-> HexBuffer(span_id),
     activity_id |-> UpperHalfId(span_id),
     parent_activity_id |-> IF parent_span = 0 THEN <<>> ELSE UpperHalfId(parent_span),
     parent_span_id |-> IF parent_span = 0 THEN ZeroBuffer ELSE HexBuffer(span_id)]

ActivitiesInit ==
    /\ self_id \in GenerateInputs \ {0}
    /\ parent_id \in GenerateInputs
    /\ derived = NoDerivation
    /\ earlier = NoDerivation
    /\ activities = NoActivities
    /\ backend = "noop"
    /\ seed = Zeroes16
    /\ EnterIdle
    /\ MetaIdle
    /\ WideIdle
    /\ handled = NoHandled
    /\ checked = NoCheck
    /\ EncIdle
    /\ TargetsIdle
    /\ LayerIdle
    /\ TableIdle
    /\ BuildIdle

Generate ==
    /\ activities = NoActivities
    /\ activities' = generate(self_id, parent_id)
    /\ UNCHANGED <<enterVars, metaVars, wideVars, handled, checked, encVars, targetVars>>
    /\ UNCHANGED <<tableVars, idVars, buildVars, backend, seed, layerVars>>

ActivitiesNext == Generate

SpecActivities == ActivitiesInit /\ [][ActivitiesNext]_vars

\* C28: generate gives the span id as the 16-character hexadecimal string of
\* span_id; with a parent, the parent string is the 16-character hexadecimal
\* string of parent_span_id and the parent activity id is present; without one,
\* the parent activity id is absent and the parent string is all zero bytes
C28_HexSpanIds ==
    activities.generated =>
        /\ activities.span_id = [zeroed |-> FALSE, text |-> PadLeft(LowerHex(self_id), 16)]
        /\ Len(activities.span_id.text) = 16
        /\ IF parent_id # 0
           THEN /\ activities.parent_span_id =
                      [zeroed |-> FALSE, text |-> PadLeft(LowerHex(parent_id), 16)]
                /\ activities.parent_activity_id # <<>>
           ELSE /\ activities.parent_span_id.zeroed
                /\ activities.parent_activity_id = <<>>

-----------------------------------------------------------------------------
(* SpecWide: add_field_value of the native encoders for a u128 or i128      *)
(* value (native/etw.rs 57-66, native/user_events.rs 32-37)                 *)

\* the 64-bit words the halves of the value are drawn from, as their
\* little-endian bytes; the last one is 2^64 - 1
WideWords ==
    { to_le_bytes(n, 8) : n \in {0, 1, 255, 65537, 2147483647} } \cup { [i \in 1..8 |-> 255] }

\* the 128-bit values: the two's-complement representation hi * 2^64 + lo
WideValues == [t : {"v_u128", "v_i128"}, lo : WideWords, hi : WideWords]

\* u128::to_le_bytes / i128::to_le_bytes: the low half first
wide_to_le_bytes(v) == v.lo \o v.hi

\* native/etw.rs 57-66: add_binary(name, v.to_le_bytes(), OutType::Default, 0)
etw_add_wide(v) == [fn |-> "add_binary", out_type |-> "Default", data |-> wide_to_le_bytes(v)]

\* native/user_events.rs 32-37: add_value(name, v.to_le_bytes(), FieldFormat::Default, 0)
user_events_add_wide(v) ==
    [fn |-> "add_value", out_type |-> "Default", data |-> wide_to_le_bytes(v)]

WideInit ==
    /\ backend \in {"etw", "user_events"}
    /\ seed = Zeroes16
    /\ wide_value \in WideValues
    /\ wide_field = NoField
    /\ handled = NoHandled
    /\ EnterIdle
    /\ MetaIdle
    /\ activities = NoActivities
    /\ checked = NoCheck
    /\ EncIdle
    /\ TargetsIdle
    /\ LayerIdle
    /\ TableIdle
    /\ IdsIdle
    /\ BuildIdle

\* add_field_value for the value, on the builder of the backend
AddWideValue ==
    /\ wide_field = NoField
    /\ wide_field' = IF backend = "etw" THEN etw_add_wide(wide_value)
                     ELSE user_events_add_wide(wide_value)
    /\ UNCHANGED <<wide_value, enterVars, metaVars, activities, handled, checked, encVars, targetVars>>
    /\ UNCHANGED <<tableVars, idVars, buildVars, backend, seed, layerVars>>

WideNext == AddWideValue

SpecWide == WideInit /\ [][WideNext]_vars

\* C29: on the self-describing backend (etw) a u128 or i128 value is written as
\* a sequence of two 64-bit words tagged as hex, the first word the value
\* modulo 2^64 and the second the value divided by 2^64, both of its
\* two's-complement representation
C29_WideAsHexPair ==
    (backend = "etw" /\ wide_field # NoField) =>
        /\ wide_field.fn = "add_u64_sequence"
        /\ wide_field.out_type = "Hex"
        /\ Len(wide_field.data) = 2
        /\ wide_field.data = <<wide_value.lo, wide_value.hi>>

-----------------------------------------------------------------------------
(* SpecHandlers: on_new_span, on_record, on_enter and on_exit of the layer  *)
(* called for any span id, whether or not the registry knows the span and   *)
(* whether or not the span has its EtwLayerData (layer.rs 485-675)          *)

\* how many events the handlers write in one behaviour
MaxHandlerEvents == 2

\* the callsite of the span the registry creates under an id
HandlerCallsite(id) == IF id = 1 THEN "my_span" ELSE "nested_span"

HandlersInit ==
    /\ backend \in {"etw", "user_events"}
    /\ seed = GlobalActivitySeed(BootNanos)
    /\ session = [level |-> 4, any |-> 1]
    /\ changes = 0
    /\ eventSets = IF backend = "user_events" THEN UserEventsNewSets(DefaultKeyword) ELSE {}
    /\ interest = [cs \in Callsites |-> "unset"]
    /\ reg = [id \in SpanIds |-> NoSpan]
    /\ ext = [id \in SpanIds |-> NoData]
    /\ recorded = [id \in SpanIds |-> NoRecorded]
    /\ stack = <<>>
    /\ events = <<>>
    /\ clock = 1
    /\ handled = NoHandled
    /\ EnterIdle
    /\ MetaIdle
    /\ activities = NoActivities
    /\ WideIdle
    /\ checked = NoCheck
    /\ EncIdle
    /\ TargetsIdle
    /\ TableIdle
    /\ IdsIdle
    /\ BuildIdle

\* the registry stores a new span; no handler of the layer has run for it yet
RegistryCreate(id) ==
    /\ reg[id] = NoSpan
    /\ reg' = [reg EXCEPT ![id] = [cs |-> HandlerCallsite(id), parent |-> 0, enabled |-> TRUE]]
    /\ UNCHANGED <<session, changes, eventSets, interest, ext, recorded, stack, events, clock>>
    /\ UNCHANGED <<tableVars, idVars, buildVars, backend, seed, auxVars>>

\* what a handler call leaves alone in every case
HandlerFrame ==
    /\ UNCHANGED <<session, changes, interest, reg, stack, clock>>
    /\ UNCHANGED <<tableVars, idVars, buildVars, backend, seed>>
    /\ UNCHANGED <<checked, encVars, targetVars, enterVars, metaVars, activities, wideVars>>

\* the call as `handled` keeps it: whether ctx.span(id) found the span and
\* whether the span had its EtwLayerData
HandlerCall(fn, id) ==
    [fn |-> fn, id |-> id, found |-> reg[id] # NoSpan, had_data |-> ext[id] # NoData]

\* on_new_span, layer.rs 485-563
CallNewSpan(id, attrs) ==
    /\ handled' = HandlerCall("on_new_span", id)
    /\ IF reg[id] = NoSpan
       THEN UNCHANGED <<ext, recorded>>
       ELSE /\ ext' = [ext EXCEPT ![id] = on_new_span(ext[id], seed, id, reg[id].cs, attrs)]
            /\ recorded' = IF ext[id] = NoData
                           THEN [recorded EXCEPT ![id] = NewRecorded(reg[id].cs)]
                           ELSE recorded
    /\ UNCHANGED <<events, eventSets>>
    /\ HandlerFrame

\* on_record, layer.rs 650-675
CallRecord(id, call) ==
    /\ handled' = HandlerCall("on_record", id)
    /\ IF reg[id] = NoSpan \/ ext[id] = NoData
       THEN UNCHANGED <<ext, recorded>>
       ELSE /\ ext' = [ext EXCEPT ![id].fields = update_value(@, call.name, call.value)]
            /\ recorded' = [recorded EXCEPT ![id] = ReferenceMap(@, <<call>>)]
    /\ UNCHANGED <<events, eventSets>>
    /\ HandlerFrame

\* on_enter, layer.rs 565-604
CallEnter(id) ==
    /\ handled' = HandlerCall("on_enter", id)
    /\ IF reg[id] = NoSpan \/ ext[id] = NoData
       THEN UNCHANGED <<ext, events, eventSets>>
       ELSE LET cs == reg[id].cs
                level == map_level(Metadata(cs).level)
                keyword == Keyword(cs, DefaultKeyword)
            IN /\ Len(events) < MaxHandlerEvents
               /\ events' = Written(backend, events,
                      SpanStartEvent(backend, id, Metadata(cs).name, clock,
                          ext[id].activity_id, ext[id].related_activity_id,
                          ext[id].fields, level, keyword, EventTag(cs)))
               /\ eventSets' = SetsAfterWrite(backend, eventSets, level, keyword)
               /\ ext' = [ext EXCEPT ![id].start_time = clock]
    /\ UNCHANGED recorded
    /\ HandlerFrame

\* on_exit, layer.rs 606-643
CallExit(id) ==
    /\ handled' = HandlerCall("on_exit", id)
    /\ IF reg[id] = NoSpan \/ ext[id] = NoData
       THEN UNCHANGED <<events, eventSets>>
       ELSE LET cs == reg[id].cs
                level == map_level(Metadata(cs).level)
                keyword == Keyword(cs, DefaultKeyword)
            IN /\ Len(events) < MaxHandlerEvents
               /\ events' = Written(backend, events,
                      SpanStopEvent(backend, id, Metadata(cs).name,
                          <<ext[id].start_time, clock>>,
                          ext[id].activity_id, ext[id].related_activity_id,
                          ext[id].fields, level, keyword, EventTag(cs)))
               /\ eventSets' = SetsAfterWrite(backend, eventSets, level, keyword)
    /\ UNCHANGED <<ext, recorded>>
    /\ HandlerFrame

HandlersNext ==
    \/ \E id \in SpanIds : RegistryCreate(id)
    \/ \E id \in SpanIds, attrs \in AttrsFor({}) : CallNewSpan(id, attrs)
    \/ \E id \in SpanIds, call \in RecordCalls("my_span") : CallRecord(id, call)
    \/ \E id \in SpanIds : CallEnter(id)
    \/ \E id \in SpanIds : CallExit(id)

SpecHandlers == HandlersInit /\ [][HandlersNext]_vars

\* C30: an on_new_span for a span that already has its EtwLayerData leaves the
\* span's field values, ids and start time as they were, and an on_enter,
\* on_exit or on_record for a span the registry does not find or that has no
\* EtwLayerData writes no event and changes no data of the layer
C30_HandlersSafe ==
    [][
        /\ (handled'.fn = "on_new_span" /\ handled'.had_data) =>
              (ext'[handled'.id] = ext[handled'.id] /\ events' = events)
        /\ (handled'.fn \in {"on_enter", "on_exit", "on_record"}
               /\ ~(handled'.found /\ handled'.had_data)) =>
              (ext' = ext /\ events' = events /\ eventSets' = eventSets)
    ]_vars

\* C30's case: on_new_span was called again for a span that was entered and
\* holds a recorded value, while the registry holds another span for which no
\* on_new_span has run and a handler was called for it before
C30_Witness ==
    /\ handled.fn = "on_new_span"
    /\ handled.had_data
    /\ ext[handled.id].start_time > 0
    /\ \E i \in 1..Len(ext[handled.id].fields) :
          ext[handled.id].fields[i].value.v = "12345"
    /\ \E other \in SpanIds : reg[other] # NoSpan /\ ext[other] = NoData
    /\ events # <<>>
====
